---------------------------- MODULE Spec2Model ----------------------------
(***************************************************************************)
(* Portfolio ledger and valuation of the FinanceAI agent.                  *)
(*                                                                         *)
(* The ledger is the `portfolio` array of the agent's working memory,      *)
(* written by addStockTool and removeStockTool and by the dashboard's CSV  *)
(* import.  Valuation is done by portfolioAdvisorTool and                  *)
(* portfolioProfitCalculatorTool, alert checking by alertCheckerTool.      *)
(*                                                                         *)
(* Numbers: quantities, prices and quotes are integers, except the decimal *)
(* prices of the runs that average them; what the code computes from them  *)
(* by division is a JavaScript Number, kept as the IEEE 754 binary64 value *)
(* it is, with NaN, the infinities and the signed zeros.                   *)
(***************************************************************************)
EXTENDS Integers, Sequences, FiniteSets, TLC

(***************************************************************************)
(* Bounds                                                                  *)
(***************************************************************************)
\* largest quantity of one call
MaxQty == 2
\* largest number of lots (purchases entries) in the whole portfolio
MaxLots == 2
\* the same, in the runs that pass positive quantities and prices only
MaxPosLots == 3
\* largest number of holdings in the portfolio array
MaxHoldings == 2
\* largest stored quantity of one holding, in absolute value
MaxHeld == 3
\* largest number of holdings passed to a valuation call
MaxValHoldings == 2
\* largest number of alerts passed to the alert checker
MaxAlerts == 2
\* most positions given to an advisor
MaxAdviceHoldings == 6
\* most holdings given to a rebalancing analyzer
MaxRebalanceHoldings == 3
\* most tool calls of working memory in flight together
MaxCalls == 2
\* most times in a run that a tool call starts while another is in flight
MaxOverlaps == 1
\* most lots in the stored portfolio when a tool call starts while another
\* is in flight
MaxRaceLots == 1
\* most records kept in the alert, expense and subscription lists together
MaxRecords == 2
\* most lots in the portfolio while the list tools are driven
MaxMemoryLots == 1
\* most price refreshes of the dashboard in flight together
MaxRefreshes == 2
\* most lots in the dashboard's portfolio
MaxDashLots == 2
\* largest number of data rows of a CSV file the dashboard runs import
MaxDashRows == 1

\* ticker symbols as stored, and as a caller may type them
Symbols == {"A", "B"}
InSymbols == {"a", "B"}
\* quantities and prices a caller may pass: the input schema is z.number()
QtyIn == (-1) .. 1
PriceIn == {0, 1}
\* the quantities and prices of the data model: positive
PosQty == 1 .. MaxQty
PosPrice == {1, 3}

VARIABLES
    portfolio,   \* working memory: the portfolio array
    buys,        \* history: per symbol, the lots bought since it was last absent
    lastCall,    \* the last tool call and the result it returned
    valTool,     \* the valuation or alert tool being executed ("none": no call)
    apiKey,      \* whether FINNHUB_API_KEY is configured
    valInput,    \* context.portfolio (context.alerts) of the call
    quotes,      \* per input index, how its quote fetch ended ("pending": not yet)
    completed,   \* the input indices in the order their fetches completed
    triggeredAlerts,  \* alertCheckerTool's triggeredAlerts array so far
    valResult,   \* what execute returned: status and holdings
    alerts,      \* working memory: the alerts array
    expenses,    \* working memory: the expenses array
    billReminders,  \* working memory: the billReminders array
    calls,       \* per tool call in flight: its arguments and what it has read
    overlaps,    \* how many tool calls have started while another was in flight
    livePortfolio,  \* the dashboard's livePortfolio state
    refreshes,   \* the dashboard's price refreshes in flight: their snapshots
    mounted,     \* which MainDashboard of page.tsx is on screen (0: none yet)
    rendered,    \* state.portfolio of the render whose effects ran last
    effectPending  \* state.portfolio has changed and the effects on it are yet to run

ledgerVars == <<portfolio, buys, lastCall>>
valVars == <<valTool, apiKey, valInput, quotes, completed, triggeredAlerts, valResult>>
memVars == <<alerts, expenses, billReminders, calls, overlaps>>
dashVars == <<livePortfolio, refreshes, mounted, rendered, effectPending>>
vars == <<portfolio, buys, lastCall, valTool, apiKey, valInput, quotes, completed,
          triggeredAlerts, valResult, alerts, expenses, billReminders, calls,
          overlaps, livePortfolio, refreshes, mounted, rendered, effectPending>>

(***************************************************************************)
(* Helpers                                                                 *)
(***************************************************************************)
\* String.prototype.toUpperCase on the symbols of the model
ToUpperCase(s) == IF s = "a" THEN "A" ELSE s

\* Array.prototype.findIndex(h => h.symbol === symbolUpper); 0 stands for -1,
\* indices are 1-based
FindIndex(pf, symbolUpper) ==
    IF \E i \in 1 .. Len(pf) : pf[i].symbol = symbolUpper
    THEN CHOOSE i \in 1 .. Len(pf) :
            /\ pf[i].symbol = symbolUpper
            /\ \A j \in 1 .. (i - 1) : pf[j].symbol # symbolUpper
    ELSE 0

\* Array.prototype.filter(h => h.symbol !== symbolUpper)
RECURSIVE FilterOut(_, _)
FilterOut(pf, symbolUpper) ==
    IF pf = << >> THEN << >>
    ELSE IF Head(pf).symbol # symbolUpper
         THEN <<Head(pf)>> \o FilterOut(Tail(pf), symbolUpper)
         ELSE FilterOut(Tail(pf), symbolUpper)

Lot(q, p) == [quantity |-> q, price |-> p]

(***************************************************************************)
(* The numbers of the code are IEEE 754 binary64 values.  A finite number  *)
(* is sign * m * 2^e with m an odd natural number of at most 53 bits (or 0 *)
(* for the zeros, which keep their sign); m is a sequence of limbs of      *)
(* LimbBits bits, least significant first.  Each operation computes the    *)
(* exact result and rounds it to the nearest such value, ties to even: a   *)
(* result of 2^1024 or more is an infinity, and below 2^-1022 the values   *)
(* are the multiples of 2^-1074 (gradual underflow to the zeros).          *)
(***************************************************************************)
\* bits of one limb of a significand
LimbBits == 14
Base == 2^LimbBits
\* significant bits of a Number
MantissaBits == 53
\* the exponent of the lowest bit a Number can have, and of the first power
\* of two beyond the largest Number
LowestExponent == -1074
OverflowExponent == 1024

\* a natural number below 2^31 as limbs
RECURSIVE BigFromInt(_)
BigFromInt(n) == IF n = 0 THEN << >> ELSE <<n % Base>> \o BigFromInt(n \div Base)

\* limbs without the zero limbs at the top
RECURSIVE BigTrim(_)
BigTrim(x) ==
    IF x = << >> THEN << >>
    ELSE IF x[Len(x)] = 0 THEN BigTrim(SubSeq(x, 1, Len(x) - 1)) ELSE x

\* -1, 0, 1 as x is below, equal to, above y
RECURSIVE BigCmpAt(_, _, _)
BigCmpAt(x, y, i) ==
    IF i = 0 THEN 0
    ELSE IF x[i] < y[i] THEN -1
    ELSE IF x[i] > y[i] THEN 1
    ELSE BigCmpAt(x, y, i - 1)
BigCmp(x, y) ==
    IF Len(x) < Len(y) THEN -1
    ELSE IF Len(x) > Len(y) THEN 1
    ELSE BigCmpAt(x, y, Len(x))

\* x + y + carry
RECURSIVE BigAddC(_, _, _)
BigAddC(x, y, carry) ==
    IF x = << >> /\ y = << >> THEN (IF carry = 0 THEN << >> ELSE <<carry>>)
    ELSE LET a == IF x = << >> THEN 0 ELSE Head(x)
             b == IF y = << >> THEN 0 ELSE Head(y)
             s == a + b + carry
         IN  <<s % Base>> \o BigAddC(IF x = << >> THEN x ELSE Tail(x),
                                     IF y = << >> THEN y ELSE Tail(y), s \div Base)
BigAdd(x, y) == BigAddC(x, y, 0)

\* x - y - borrow, for x >= y + borrow
RECURSIVE BigSubB(_, _, _)
BigSubB(x, y, borrow) ==
    IF x = << >> THEN << >>
    ELSE LET b == (IF y = << >> THEN 0 ELSE Head(y)) + borrow
             under == Head(x) < b
         IN  <<IF under THEN Head(x) + Base - b ELSE Head(x) - b>>
             \o BigSubB(Tail(x), IF y = << >> THEN y ELSE Tail(y),
                        IF under THEN 1 ELSE 0)
BigSub(x, y) == BigTrim(BigSubB(x, y, 0))

\* x * k + carry for a natural number k of at most 16 bits
RECURSIVE BigMulSmall(_, _, _)
BigMulSmall(x, k, carry) ==
    IF x = << >> THEN BigFromInt(carry)
    ELSE LET p == Head(x) * k + carry
         IN  <<p % Base>> \o BigMulSmall(Tail(x), k, p \div Base)

\* x * y
RECURSIVE BigMul(_, _)
BigMul(x, y) ==
    IF x = << >> \/ y = << >> THEN << >>
    ELSE BigTrim(BigAdd(BigMulSmall(x, Head(y), 0), <<0>> \o BigMul(x, Tail(y))))

\* x * 2^k
BigShl(x, k) ==
    IF x = << >> THEN x
    ELSE [i \in 1 .. (k \div LimbBits) |-> 0]
         \o BigTrim(BigMulSmall(x, 2^(k % LimbBits), 0))

\* floor(x / 2^k)
BigShr(x, k) ==
    LET q == k \div LimbBits
        r == k % LimbBits
        n == Len(x) - q
        limb(i) == IF i <= Len(x) THEN x[i] ELSE 0
    IN  IF n <= 0 THEN << >>
        ELSE BigTrim([i \in 1 .. n |->
                        (limb(i + q) \div 2^r) + (limb(i + q + 1) % 2^r) * 2^(LimbBits - r)])

\* x mod 2^k
BigLow(x, k) ==
    LET q == k \div LimbBits
        r == k % LimbBits
    IN  IF Len(x) <= q THEN x
        ELSE BigTrim(SubSeq(x, 1, q) \o <<x[q + 1] % 2^r>>)

\* the number of bits of x
BigBitLen(x) ==
    IF x = << >> THEN 0
    ELSE LimbBits * (Len(x) - 1)
         + (CHOOSE b \in 1 .. LimbBits : 2^(b - 1) <= x[Len(x)] /\ x[Len(x)] < 2^b)

\* the number of zero bits at the bottom of x, for x > 0
RECURSIVE BigTrailingZeros(_)
BigTrailingZeros(x) ==
    IF Head(x) = 0 THEN LimbBits + BigTrailingZeros(Tail(x))
    ELSE CHOOSE t \in 0 .. (LimbBits - 1) : Head(x) % 2^(t + 1) = 2^t

\* the largest digit d <= qhat with d * y <= cur
RECURSIVE BigDigit(_, _, _)
BigDigit(cur, y, qhat) ==
    IF BigCmp(BigTrim(BigMulSmall(y, qhat, 0)), cur) > 0
    THEN BigDigit(cur, y, qhat - 1) ELSE qhat

\* limb i of x, 0 above its top
BigLimb(x, i) == IF i <= Len(x) THEN x[i] ELSE 0
\* the estimate of the next digit from the top limbs of cur and y
BigDigitEstimate(cur, y, n) ==
    (IF BigLimb(cur, n + 1) >= y[n] THEN Base - 1
     ELSE (BigLimb(cur, n + 1) * Base + BigLimb(cur, n)) \div y[n])
RECURSIVE BigDivLoop(_, _, _, _)
\* the step of the division that found digit for the remainder cur
BigDivDigit(x, y, cur, q, digit) ==
    BigDivLoop(SubSeq(x, 1, Len(x) - 1), y,
               BigSub(cur, BigTrim(BigMulSmall(y, digit, 0))), <<digit>> \o q)
\* the step of the division that brought down a limb: cur is the remainder
BigDivStep(x, y, cur, q) ==
    BigDivDigit(x, y, cur, q, BigDigit(cur, y, BigDigitEstimate(cur, y, Len(y))))
\* long division by y, whose top limb has its top bit set when y has more
\* than one limb: x holds the limbs still to bring down, r the remainder,
\* q the quotient so far
BigDivLoop(x, y, r, q) ==
    IF x = << >> THEN [q |-> BigTrim(q), r |-> r]
    ELSE BigDivStep(x, y, BigTrim(<<x[Len(x)]>> \o r), q)

\* floor(x / y) as q, and whether the division left a remainder, for y > 0
BigDivResult(d) == [q |-> d.q, inexact |-> d.r # << >>]
BigDivShifted(x, y, shift) ==
    BigDivResult(BigDivLoop(BigShl(x, shift), BigShl(y, shift), << >>, << >>))
BigDiv(x, y) == BigDivShifted(x, y, LimbBits - (BigBitLen(y) - LimbBits * (Len(y) - 1)))

NaNValue == [k |-> "nan", s |-> 1, m |-> << >>, e |-> 0]
Infinity(s) == [k |-> "inf", s |-> s, m |-> << >>, e |-> 0]
Zero(s) == [k |-> "num", s |-> s, m |-> << >>, e |-> 0]

\* s * m * 2^e with the zero bits at the bottom of m moved into e
Shifted(s, m, e, tz) == [k |-> "num", s |-> s, m |-> BigShr(m, tz), e |-> e + tz]
Canonical(s, m, e) ==
    IF m = << >> THEN Zero(s) ELSE Shifted(s, m, e, BigTrailingZeros(m))

\* -1, 0, 1 as low, which is below 2^k, is below, equal to, above 2^(k - 1)
HalfCmpLow(low, k) ==
    IF BigBitLen(low) < k THEN -1
    ELSE IF BigTrailingZeros(low) = k - 1 THEN 0 ELSE 1
\* -1, 0, 1 as the k low bits of x are below, equal to, above a half
HalfCmp(x, k) == HalfCmpLow(BigLow(x, k), k)

\* s * m * 2^e, or the infinity it is when it is 2^OverflowExponent or more
Finite(s, m, e) ==
    IF BigBitLen(m) + e > OverflowExponent THEN Infinity(s) ELSE Canonical(s, m, e)
\* the binary64 value nearest to s * (m + f) * 2^e, where 0 <= f < 1 and
\* inexact says that f > 0 (m then has more than MantissaBits + 1 bits):
\* round to nearest, ties to even
\* kept is m without its drop low bits, half compares those bits with a half
RoundKept(kept, half, inexact) ==
    IF half > 0 \/ (half = 0 /\ (inexact \/ (kept # << >> /\ kept[1] % 2 = 1)))
    THEN BigAdd(kept, <<1>>) ELSE kept
RoundDropping(s, m, e, inexact, drop) ==
    IF drop <= 0 THEN Finite(s, m, e)
    ELSE Finite(s, RoundKept(BigShr(m, drop), HalfCmp(m, drop), inexact), e + drop)
\* the bits dropped are those beyond MantissaBits and those below
\* 2^LowestExponent
HigherOf(i, j) == IF i > j THEN i ELSE j
RoundToDouble(s, m, e, inexact) ==
    RoundDropping(s, m, e, inexact,
                  HigherOf(BigBitLen(m) - MantissaBits, LowestExponent - e))

\* the number an integer of the model is
FromInt(x) == Canonical(IF x < 0 THEN -1 ELSE 1, BigFromInt(IF x < 0 THEN -x ELSE x), 0)

IsFinite(a) == a.k = "num"
F64IsNaN(a) == a.k = "nan"
IsZero(a) == a.k = "num" /\ a.m = << >>
\* -a
F64Neg(a) == [a EXCEPT !.s = IF a.k = "nan" THEN 1 ELSE -a.s]
\* Math.abs
F64Abs(a) == [a EXCEPT !.s = 1]

\* a * b
F64Mul(a, b) ==
    IF F64IsNaN(a) \/ F64IsNaN(b) THEN NaNValue
    ELSE IF a.k = "inf" \/ b.k = "inf"
         THEN (IF IsZero(a) \/ IsZero(b) THEN NaNValue ELSE Infinity(a.s * b.s))
    ELSE RoundToDouble(a.s * b.s, BigMul(a.m, b.m), a.e + b.e, FALSE)

\* a / b for finite a and b that are not zero: the quotient of the
\* significands, with a scaled by 2^k to give it the bits rounding needs
NonNegative(n) == IF n > 0 THEN n ELSE 0
RoundQuotient(s, d, e) == RoundToDouble(s, d.q, e, d.inexact)
DivideScaled(a, b, k) ==
    RoundQuotient(a.s * b.s, BigDiv(BigShl(a.m, k), b.m), a.e - b.e - k)

\* a / b
F64Div(a, b) ==
    IF F64IsNaN(a) \/ F64IsNaN(b) THEN NaNValue
    ELSE IF a.k = "inf" THEN (IF b.k = "inf" THEN NaNValue ELSE Infinity(a.s * b.s))
    ELSE IF b.k = "inf" THEN Zero(a.s * b.s)
    ELSE IF IsZero(b) THEN (IF IsZero(a) THEN NaNValue ELSE Infinity(a.s * b.s))
    ELSE IF IsZero(a) THEN Zero(a.s * b.s)
    ELSE IF b.m = <<1>> THEN RoundToDouble(a.s * b.s, a.m, a.e - b.e, FALSE)
    ELSE DivideScaled(a, b, NonNegative(MantissaBits + 3 + BigBitLen(b.m) - BigBitLen(a.m)))

LowerOf(i, j) == IF i < j THEN i ELSE j
\* the same for a and b that are not zero, whose top bits are at topA and
\* topB and whose lower exponent is e
MagnitudeCmpTops(a, b, topA, topB, e) ==
    IF topA < topB THEN -1
    ELSE IF topA > topB THEN 1
    ELSE BigCmp(BigShl(a.m, a.e - e), BigShl(b.m, b.e - e))
\* -1, 0, 1 as |a| is below, equal to, above |b|, for finite a and b
MagnitudeCmp(a, b) ==
    IF IsZero(a) \/ IsZero(b)
    THEN (IF IsZero(a) /\ IsZero(b) THEN 0 ELSE IF IsZero(a) THEN -1 ELSE 1)
    ELSE MagnitudeCmpTops(a, b, BigBitLen(a.m) + a.e, BigBitLen(b.m) + b.e,
                          LowerOf(a.e, b.e))

\* sa * x * 2^e + sb * y * 2^e, where c compares x with y
AddAligned(sa, sb, x, y, e, c) ==
    IF sa # sb /\ c = 0 THEN Zero(1)
    ELSE RoundToDouble(IF sa = sb \/ c > 0 THEN sa ELSE sb,
                       IF sa = sb THEN BigAdd(x, y)
                       ELSE IF c > 0 THEN BigSub(x, y) ELSE BigSub(y, x),
                       e, FALSE)
AddSignificands(sa, sb, x, y, e) == AddAligned(sa, sb, x, y, e, BigCmp(x, y))
\* a + b for finite a and b that are not zero, whose lower exponent is e
AddAt(a, b, e) == AddSignificands(a.s, b.s, BigShl(a.m, a.e - e), BigShl(b.m, b.e - e), e)
\* bits by which a significand is scaled to add a number below its last bit
GuardBits == 60
\* a + b for |b| below 2^(a.e - GuardBits): a's significand scaled by
\* 2^GuardBits, less 1 when b pulls the other way, and a fraction left over
AddBelow(a, b) ==
    RoundToDouble(a.s,
                  IF a.s = b.s THEN BigShl(a.m, GuardBits)
                  ELSE BigSub(BigShl(a.m, GuardBits), <<1>>),
                  a.e - GuardBits, TRUE)

\* a + b
F64Add(a, b) ==
    IF F64IsNaN(a) \/ F64IsNaN(b) THEN NaNValue
    ELSE IF a.k = "inf"
         THEN (IF b.k = "inf" /\ b.s # a.s THEN NaNValue ELSE a)
    ELSE IF b.k = "inf" THEN b
    ELSE IF IsZero(a) /\ IsZero(b) THEN Zero(IF a.s = -1 /\ b.s = -1 THEN -1 ELSE 1)
    ELSE IF IsZero(a) THEN b
    ELSE IF IsZero(b) THEN a
    ELSE IF BigBitLen(b.m) + b.e + GuardBits <= a.e THEN AddBelow(a, b)
    ELSE IF BigBitLen(a.m) + a.e + GuardBits <= b.e THEN AddBelow(b, a)
    ELSE AddAt(a, b, LowerOf(a.e, b.e))

\* a - b
F64Sub(a, b) == F64Add(a, F64Neg(b))

\* the number n / d that the division of two integers gives
Quotient(n, d) == F64Div(FromInt(n), FromInt(d))

\* x * y of two integers as the Number the code computes: a product that
\* is zero has the sign of its factors, 0 * -1 is -0
Times(x, y) == F64Mul(FromInt(x), FromInt(y))

\* -1, 0, 1 as a is below, equal to, above b, for a and b that are not NaN
F64Cmp(a, b) ==
    IF a.k = "inf" \/ b.k = "inf"
    THEN (IF a.k = "inf" /\ b.k = "inf"
          THEN (IF a.s = b.s THEN 0 ELSE a.s)
          ELSE IF a.k = "inf" THEN a.s ELSE -b.s)
    ELSE IF IsZero(a) /\ IsZero(b) THEN 0
    ELSE IF IsZero(a) THEN -b.s
    ELSE IF IsZero(b) THEN a.s
    ELSE IF a.s # b.s THEN a.s
    ELSE a.s * MagnitudeCmp(a, b)

\* === on numbers: NaN equals nothing, the two zeros are equal
F64Eq(a, b) == ~F64IsNaN(a) /\ ~F64IsNaN(b) /\ F64Cmp(a, b) = 0
\* < on numbers: false whenever a side is NaN
F64Lt(a, b) == ~F64IsNaN(a) /\ ~F64IsNaN(b) /\ F64Cmp(a, b) < 0

\* Math.min, Math.max of two numbers; -0 is below +0
F64Min(a, b) == IF F64IsNaN(a) THEN a ELSE IF F64IsNaN(b) THEN b
                ELSE IF F64Lt(b, a) THEN b
                ELSE IF IsZero(a) /\ IsZero(b) /\ b.s = -1 THEN b ELSE a
F64Max(a, b) == IF F64IsNaN(a) THEN a ELSE IF F64IsNaN(b) THEN b
                ELSE IF F64Lt(a, b) THEN b
                ELSE IF IsZero(a) /\ IsZero(b) /\ b.s = 1 THEN b ELSE a
\* Math.max(...numbers); -Infinity when there is none
RECURSIVE MathMax(_)
MathMax(numbers) ==
    IF numbers = << >> THEN Infinity(-1)
    ELSE F64Max(Head(numbers), MathMax(Tail(numbers)))

\* Math.floor, Math.ceil, Math.round; a number that is not finite, or is an
\* integer, is kept.  Of a number with a fraction, whole is the integer part
\* of its magnitude and half compares the fraction with a half
WholeOrNext(s, whole, next) == Canonical(s, IF next THEN BigAdd(whole, <<1>>) ELSE whole, 0)
F64Floor(a) ==
    IF ~IsFinite(a) \/ a.e >= 0 THEN a
    ELSE WholeOrNext(a.s, BigShr(a.m, -a.e), a.s = -1)
F64Ceil(a) ==
    IF ~IsFinite(a) \/ a.e >= 0 THEN a
    ELSE WholeOrNext(a.s, BigShr(a.m, -a.e), a.s = 1)
\* Math.round: to the nearest integer, a half goes up
RoundHalfUp(s, whole, half) ==
    WholeOrNext(s, whole, IF s = 1 THEN half >= 0 ELSE half > 0)
F64Round(a) ==
    IF ~IsFinite(a) \/ a.e >= 0 THEN a
    ELSE RoundHalfUp(a.s, BigShr(a.m, -a.e), HalfCmp(a.m, -a.e))

\* the integer a magnitude stands for
RECURSIVE BigToInt(_)
BigToInt(x) == IF x = << >> THEN 0 ELSE Head(x) + Base * BigToInt(Tail(x))

\* Number.isInteger, and the integer an integer-valued number is
IsInteger(a) == IsFinite(a) /\ a.e >= 0
IntOf(a) == a.s * BigToInt(a.m) * 2 ^ a.e

\* the exact sums of the quantities and of the costs of lots whose
\* quantities and prices are integers
RECURSIVE SumQty(_)
SumQty(lots) == IF lots = << >> THEN 0 ELSE Head(lots).quantity + SumQty(Tail(lots))
RECURSIVE SumCost(_)
SumCost(lots) ==
    IF lots = << >> THEN 0
    ELSE Head(lots).price * Head(lots).quantity + SumCost(Tail(lots))

\* purchases.reduce((sum, p) => sum + (p.price * p.quantity), 0) and
\* purchases.reduce((sum, p) => sum + p.quantity, 0), for lots whose
\* quantities and prices are Numbers: each product and each sum from the
\* left is rounded
RECURSIVE TotalCost(_)
TotalCost(purchases) ==
    IF purchases = << >> THEN FromInt(0)
    ELSE F64Add(TotalCost(SubSeq(purchases, 1, Len(purchases) - 1)),
                F64Mul(purchases[Len(purchases)].price,
                       purchases[Len(purchases)].quantity))
RECURSIVE TotalQty(_)
TotalQty(purchases) ==
    IF purchases = << >> THEN FromInt(0)
    ELSE F64Add(TotalQty(SubSeq(purchases, 1, Len(purchases) - 1)),
                purchases[Len(purchases)].quantity)
\* totalCost / totalQty
AverageCost(purchases) == F64Div(TotalCost(purchases), TotalQty(purchases))

\* lots of integer quantities and prices, and lots of integer quantities
\* whose prices are Numbers already, as lots of Numbers
NumberLots(lots) ==
    [i \in 1 .. Len(lots) |-> Lot(FromInt(lots[i].quantity), FromInt(lots[i].price))]
PricedLots(lots) ==
    [i \in 1 .. Len(lots) |-> Lot(FromInt(lots[i].quantity), lots[i].price)]

\* portfolioAdvisorTool "Calculate average cost"; calculateAvgCost of the dashboard
AvgCost(holding) ==
    IF "purchases" \in DOMAIN holding /\ Len(holding.purchases) > 0
    THEN AverageCost(NumberLots(holding.purchases))
    ELSE FromInt(holding.purchasePrice)

\* addStockTool that records no lot for a repeat buy
AddStockFnNoLot(pf, symbol, quantity, price) ==
    LET symbolUpper == ToUpperCase(symbol)
        existingIndex == FindIndex(pf, symbolUpper)
    IN  IF existingIndex > 0
        THEN [pf EXCEPT ![existingIndex].quantity = @ + quantity]
        ELSE Append(pf, [symbol |-> symbolUpper,
                         quantity |-> quantity,
                         purchasePrice |-> price,
                         purchases |-> <<Lot(quantity, price)>>])

\* existing.purchases || [{quantity: existing.quantity, price:
\* existing.purchasePrice}]: a holding stored without purchases counts as
\* one lot of its quantity at its purchase price
PurchasesOrDefault(existing) ==
    IF "purchases" \in DOMAIN existing THEN existing.purchases
    ELSE <<Lot(existing.quantity, existing.purchasePrice)>>

(***************************************************************************)
(* addStockTool.execute, after the memory check: the portfolio it writes   *)
(***************************************************************************)
AddStockFn(pf, symbol, quantity, price) ==
    LET symbolUpper == ToUpperCase(symbol)
        existingIndex == FindIndex(pf, symbolUpper)
    IN  IF existingIndex > 0
        THEN LET existing == pf[existingIndex]
             IN  [pf EXCEPT ![existingIndex] =
                    [symbol |-> symbolUpper,
                     quantity |-> existing.quantity + quantity,
                     purchasePrice |-> existing.purchasePrice,
                     purchases |-> Append(PurchasesOrDefault(existing),
                                          Lot(quantity, price))]]
        ELSE Append(pf, [symbol |-> symbolUpper,
                         quantity |-> quantity,
                         purchasePrice |-> price,
                         purchases |-> <<Lot(quantity, price)>>])

\* removeStockTool that deletes only when more than the held quantity is removed
RemoveStockFnKeepsZero(pf, symbol, hasQty, quantity) ==
    LET symbolUpper == ToUpperCase(symbol)
        existingIndex == FindIndex(pf, symbolUpper)
    IN  IF (~hasQty) \/ quantity = 0 \/ pf[existingIndex].quantity < quantity
        THEN FilterOut(pf, symbolUpper)
        ELSE [pf EXCEPT ![existingIndex].quantity = @ - quantity]

(***************************************************************************)
(* removeStockTool.execute, once the symbol is found: the portfolio it     *)
(* writes.  hasQty = FALSE is the optional quantity left out.              *)
(***************************************************************************)
RemoveStockFn(pf, symbol, hasQty, quantity) ==
    LET symbolUpper == ToUpperCase(symbol)
        existingIndex == FindIndex(pf, symbolUpper)
    IN  IF (~hasQty) \/ quantity = 0 \/ pf[existingIndex].quantity <= quantity
        THEN FilterOut(pf, symbolUpper)
        ELSE [pf EXCEPT ![existingIndex].quantity = @ - quantity]

Held(pf, symbolUpper) == FindIndex(pf, symbolUpper) > 0

\* the history of lots follows the holdings: a symbol no longer held has none
BuysAfter(pf, b) == [s \in Symbols |-> IF Held(pf, s) THEN b[s] ELSE << >>]

RECURSIVE NumLots(_)
NumLots(pf) ==
    IF pf = << >> THEN 0 ELSE Len(PurchasesOrDefault(Head(pf))) + NumLots(Tail(pf))

\* the portfolios the model keeps: the bounds on array lengths and quantities
InBounds(pf, maxLots) ==
    /\ Len(pf) <= MaxHoldings
    /\ NumLots(pf) <= maxLots
    /\ \A i \in 1 .. Len(pf) : pf[i].quantity \in (-MaxHeld) .. MaxHeld

Call(tool, success) == [tool |-> tool, success |-> success]

(***************************************************************************)
(* Actions of the ledger                                                   *)
(***************************************************************************)
Running == [status |-> "running", holdings |-> << >>]

LedgerInit ==
    /\ portfolio = << >>
    /\ buys = [s \in Symbols |-> << >>]
    /\ lastCall = Call("none", TRUE)
    /\ alerts = << >>
    /\ expenses = << >>
    /\ billReminders = << >>
    /\ calls = << >>
    /\ overlaps = 0
    /\ livePortfolio = << >>
    /\ refreshes = << >>
    /\ mounted = 0
    /\ rendered = << >>
    /\ effectPending = FALSE

Init ==
    /\ LedgerInit
    /\ valTool = "none"
    /\ apiKey = TRUE
    /\ valInput = << >>
    /\ quotes = << >>
    /\ completed = << >>
    /\ triggeredAlerts = << >>
    /\ valResult = Running

(***************************************************************************)
(* A tool of working memory gives way twice while it executes: at await    *)
(* getWorkingMemory, where the list it works on is read, and at await      *)
(* updateWorkingMemory, where the copy it built from what it read is       *)
(* stored; it returns once that await has resumed.  Calls in flight        *)
(* together take these steps in any order.  A call in flight is            *)
(*   pc "reading"    started, the read not yet answered                    *)
(*   pc "writing"    holding the list as read, the write not yet done      *)
(*   pc "returning"  the write done, execute not yet resumed               *)
(* and leaves `calls` when it returns.                                     *)
(***************************************************************************)
ToolCall(tool, args, pc, read) == [tool |-> tool, args |-> args, pc |-> pc, read |-> read]

\* a sequence without its element c
Without(seq, c) == SubSeq(seq, 1, c - 1) \o SubSeq(seq, c + 1, Len(seq))

\* execute of a memory tool up to await getWorkingMemory, with working
\* memory available
Starts(tool, args) ==
    /\ Len(calls) < MaxCalls
    /\ calls # << >> => (overlaps < MaxOverlaps /\ NumLots(portfolio) <= MaxRaceLots)
    /\ calls' = Append(calls, ToolCall(tool, args, "reading", << >>))
    /\ overlaps' = (IF calls # << >> THEN overlaps + 1 ELSE overlaps)
    /\ UNCHANGED <<portfolio, buys, lastCall, alerts, expenses, billReminders>>
    /\ UNCHANGED <<valVars, dashVars>>

\* call c is a call of the tool at the step pc
At(c, tool, pc) == calls[c].tool = tool /\ calls[c].pc = pc

\* the agent calls addStockTool
AddStockStarts(symbol, quantity, price) ==
    Starts("addStock", [symbol |-> symbol, quantity |-> quantity, price |-> price])

\* getWorkingMemory answers call c of addStockTool: memory?.portfolio || []
AddStockReads(c) ==
    /\ At(c, "addStock", "reading")
    /\ calls' = [calls EXCEPT ![c].pc = "writing", ![c].read = portfolio]
    /\ UNCHANGED <<portfolio, buys, lastCall, alerts, expenses, billReminders, overlaps>>
    /\ UNCHANGED <<valVars, dashVars>>

\* updateWorkingMemory stores the updatedPortfolio of call c
AddStockWrites(c, maxLots) ==
    /\ At(c, "addStock", "writing")
    /\ LET args == calls[c].args
           updatedPortfolio == AddStockFn(calls[c].read, args.symbol,
                                          args.quantity, args.price)
       IN  /\ InBounds(updatedPortfolio, maxLots)
           /\ portfolio' = updatedPortfolio
           /\ buys' = [buys EXCEPT ![ToUpperCase(args.symbol)] =
                          Append(@, Lot(args.quantity, args.price))]
    /\ calls' = [calls EXCEPT ![c].pc = "returning"]
    /\ UNCHANGED <<lastCall, alerts, expenses, billReminders, overlaps>>
    /\ UNCHANGED <<valVars, dashVars>>

\* execute of call c resumes after await updateWorkingMemory and returns
\* success: true
Returns(c, tool) ==
    /\ At(c, tool, "returning")
    /\ lastCall' = Call(tool, TRUE)
    /\ calls' = Without(calls, c)
    /\ UNCHANGED <<portfolio, buys, alerts, expenses, billReminders, overlaps>>
    /\ UNCHANGED <<valVars, dashVars>>

\* addStockTool returns
AddStockReturns(c) == Returns(c, "addStock")

\* a tool that, without working memory, goes on with the empty default and
\* writes it
NoMemoryWritesDefault(tool) ==
    /\ lastCall' = Call(tool, FALSE)
    /\ portfolio' = << >>
    /\ buys' = [s \in Symbols |-> << >>]
    /\ UNCHANGED valVars
    /\ UNCHANGED <<memVars, dashVars>>

\* execute of a memory tool without working memory: it returns at once
NoMemory(tool) ==
    /\ lastCall' = Call(tool, FALSE)
    /\ UNCHANGED <<portfolio, buys>>
    /\ UNCHANGED valVars
    /\ UNCHANGED <<memVars, dashVars>>

\* the agent calls removeStockTool; hasQty = FALSE is quantity left out
RemoveStockStarts(symbol, hasQty, quantity) ==
    Starts("removeStock", [symbol |-> symbol, hasQty |-> hasQty, quantity |-> quantity])

\* getWorkingMemory answers call c of removeStockTool; a symbol that is not
\* in what was read ends the call with success: false
RemoveStockReads(c) ==
    /\ At(c, "removeStock", "reading")
    /\ IF ~Held(portfolio, ToUpperCase(calls[c].args.symbol))
       THEN /\ lastCall' = Call("removeStock", FALSE)
            /\ calls' = Without(calls, c)
       ELSE /\ calls' = [calls EXCEPT ![c].pc = "writing", ![c].read = portfolio]
            /\ UNCHANGED lastCall
    /\ UNCHANGED <<portfolio, buys, alerts, expenses, billReminders, overlaps>>
    /\ UNCHANGED <<valVars, dashVars>>

\* updateWorkingMemory stores the updatedPortfolio of call c
RemoveStockWrites(c) ==
    /\ At(c, "removeStock", "writing")
    /\ LET args == calls[c].args
           updatedPortfolio == RemoveStockFn(calls[c].read, args.symbol,
                                             args.hasQty, args.quantity)
       IN  /\ InBounds(updatedPortfolio, NumLots(calls[c].read))
           /\ portfolio' = updatedPortfolio
           /\ buys' = BuysAfter(updatedPortfolio, buys)
    /\ calls' = [calls EXCEPT ![c].pc = "returning"]
    /\ UNCHANGED <<lastCall, alerts, expenses, billReminders, overlaps>>
    /\ UNCHANGED <<valVars, dashVars>>

\* removeStockTool returns after its write
RemoveStockReturns(c) == Returns(c, "removeStock")

\* parseFloat of a CSV field: <<v>> is the number v, << >> is NaN
Num(v) == <<v>>
NaN == << >>
IsNaN(x) == x = << >>

\* one data line of a CSV file after split(',') and trim: the number of
\* parts, and what parts[0], parseFloat(parts[1]), parseFloat(parts[2]) are
CsvLine(n, sym, q, p) == [nparts |-> n, symbol |-> sym, quantity |-> q, price |-> p]
CsvLines ==
    { CsvLine(3, "a", Num(1), Num(1)) }
    \cup { CsvLine(3, "", Num(1), Num(1)), CsvLine(3, "a", NaN, Num(1)),
           CsvLine(3, "B", Num(1), NaN), CsvLine(2, "B", Num(1), NaN) }
\* the files uploaded in the runs of the dashboard
DashCsvFiles == UNION { [1 .. n -> CsvLines] : n \in 1 .. MaxDashRows }

\* handleCSVUpload of the second MainDashboard, reader.onload: the loop
\* over the data lines building newStocks, whose entries have no purchases
RECURSIVE ParseCSVSecond(_)
ParseCSVSecond(lines) ==
    IF lines = << >> THEN << >>
    ELSE LET line == Head(lines)
             symbol == ToUpperCase(line.symbol)
         IN  IF /\ line.nparts >= 3
                /\ symbol # ""
                /\ ~IsNaN(line.quantity)
                /\ ~IsNaN(line.price)
             THEN <<[symbol |-> symbol,
                     quantity |-> line.quantity[1],
                     purchasePrice |-> line.price[1]]>>
                  \o ParseCSVSecond(Tail(lines))
             ELSE ParseCSVSecond(Tail(lines))

\* handleCSVUpload of the first MainDashboard, reader.onload: the loop over
\* the data lines building newStocks
RECURSIVE ParseCSV(_)
ParseCSV(lines) ==
    IF lines = << >> THEN << >>
    ELSE LET line == Head(lines)
             symbol == ToUpperCase(line.symbol)
         IN  IF /\ line.nparts >= 3
                /\ symbol # ""
                /\ ~IsNaN(line.quantity)
                /\ ~IsNaN(line.price)
             THEN <<[symbol |-> symbol,
                     quantity |-> line.quantity[1],
                     purchasePrice |-> line.price[1],
                     purchases |-> <<Lot(line.quantity[1], line.price[1])>>]>>
                  \o ParseCSV(Tail(lines))
             ELSE ParseCSV(Tail(lines))

\* the steps of the calls in flight of addStockTool and removeStockTool
LedgerSteps(maxLots) ==
    \/ \E c \in 1 .. Len(calls) : AddStockReads(c)
    \/ \E c \in 1 .. Len(calls) : AddStockWrites(c, maxLots)
    \/ \E c \in 1 .. Len(calls) : AddStockReturns(c)
    \/ \E c \in 1 .. Len(calls) : RemoveStockReads(c)
    \/ \E c \in 1 .. Len(calls) : RemoveStockWrites(c)
    \/ \E c \in 1 .. Len(calls) : RemoveStockReturns(c)

Next ==
    \/ \E s \in InSymbols, q \in QtyIn, p \in PriceIn : AddStockStarts(s, q, p)
    \/ \E s \in InSymbols, q \in QtyIn : RemoveStockStarts(s, TRUE, q)
    \/ \E s \in InSymbols : RemoveStockStarts(s, FALSE, 0)
    \/ \E t \in {"addStock", "removeStock"} : NoMemory(t)
    \/ LedgerSteps(MaxLots)

Spec == Init /\ [][Next]_vars

(***************************************************************************)
(* The ledger driven with the quantities and prices of the data model      *)
(* (positive) only, by addStock and removeStock.                           *)
(***************************************************************************)
NextPos ==
    \/ \E s \in InSymbols, q \in PosQty, p \in PosPrice : AddStockStarts(s, q, p)
    \/ \E s \in InSymbols, q \in PosQty : RemoveStockStarts(s, TRUE, q)
    \/ \E s \in InSymbols : RemoveStockStarts(s, FALSE, 0)
    \/ LedgerSteps(MaxPosLots)

SpecPos == Init /\ [][NextPos]_vars

(***************************************************************************)
(* The ledger driven by addStock calls on one symbol whose prices are      *)
(* decimal fractions: 0.1, 0.2, 0.3 as the Numbers nearest to them.        *)
(***************************************************************************)
DecimalPrices == { Quotient(tenths, 10) : tenths \in 1 .. 3 }

NextAverage ==
    \/ \E q \in PosQty, p \in DecimalPrices : AddStockStarts("a", q, p)
    \/ \E c \in 1 .. Len(calls) : AddStockReads(c)
    \/ \E c \in 1 .. Len(calls) : AddStockWrites(c, MaxPosLots)
    \/ \E c \in 1 .. Len(calls) : AddStockReturns(c)

SpecAverage == Init /\ [][NextAverage]_vars

(***************************************************************************)
(* Valuation: portfolioAdvisorTool, portfolioProfitCalculatorTool, and the *)
(* alert checker.  A quote fetch ends in one of:                           *)
(*   kind "ok"      the response's data.c is the number c (0: no quote)    *)
(*   kind "missing" the response has no field c                            *)
(*   kind "fail"    fetch or res.json() threw                              *)
(*   kind "nofetch" no request was made (no API key)                       *)
(***************************************************************************)
Outcome(kind, c) == [kind |-> kind, c |-> c]
Pending == Outcome("pending", 0)
QuotePrices == {0, 2, 4}
FetchOutcomes ==
    { Outcome("ok", c) : c \in QuotePrices } \cup { Outcome("missing", 0), Outcome("fail", 0) }

\* what a map callback (an async function) settles to
Fulfilled(value) == [rejected |-> FALSE, value |-> value]
Rejected(value) == [rejected |-> TRUE, value |-> value]

\* the entry with the first buy's price taken for the average cost
AdvisorEntryFirstPrice(holding, outcome) ==
    LET currentPrice == IF outcome.kind = "ok" /\ outcome.c # 0 /\ outcome.c > 0
                        THEN outcome.c ELSE holding.purchasePrice
        avgCost == FromInt(holding.purchasePrice)
        totalValue == Times(currentPrice, holding.quantity)
        totalCost == F64Mul(avgCost, FromInt(holding.quantity))
        gainLoss == F64Sub(totalValue, totalCost)
    IN  [symbol |-> holding.symbol,
         quantity |-> holding.quantity,
         avgCost |-> avgCost,
         currentPrice |-> currentPrice,
         totalValue |-> totalValue,
         gainLoss |-> gainLoss,
         gainLossPercent |-> F64Mul(F64Div(gainLoss, totalCost), FromInt(100))]

\* portfolioAdvisorTool: the value its map callback returns for one holding
AdvisorEntry(holding, outcome) ==
    LET currentPrice == IF outcome.kind = "ok" /\ outcome.c # 0 /\ outcome.c > 0
                        THEN outcome.c ELSE holding.purchasePrice
        avgCost == AvgCost(holding)
        totalValue == Times(currentPrice, holding.quantity)
        totalCost == F64Mul(avgCost, FromInt(holding.quantity))
        gainLoss == F64Sub(totalValue, totalCost)
    IN  [symbol |-> holding.symbol,
         quantity |-> holding.quantity,
         avgCost |-> avgCost,
         currentPrice |-> currentPrice,
         totalValue |-> totalValue,
         gainLoss |-> gainLoss,
         gainLossPercent |-> F64Mul(F64Div(gainLoss, totalCost), FromInt(100))]

\* the advisor's callback without its try/catch around the fetch
AdvisorTaskNoCatch(holding, outcome) ==
    IF outcome.kind = "fail" THEN Rejected(AdvisorEntry(holding, outcome))
    ELSE Fulfilled(AdvisorEntry(holding, outcome))

\* portfolioAdvisorTool: its map callback; the catch swallows a failed fetch
AdvisorTask(holding, outcome) == Fulfilled(AdvisorEntry(holding, outcome))

\* portfolioProfitCalculatorTool: the value its map callback returns; the
\* input schema keeps symbol, quantity and purchasePrice only
ProfitEntry(holding, outcome) ==
    IF outcome.kind = "fail"
    THEN [symbol |-> holding.symbol,
          quantity |-> holding.quantity,
          purchasePrice |-> holding.purchasePrice,
          currentPrice |-> holding.purchasePrice,
          totalCost |-> Times(holding.purchasePrice, holding.quantity),
          totalValue |-> Times(holding.purchasePrice, holding.quantity),
          profitLoss |-> FromInt(0),
          profitLossPercent |-> FromInt(0)]
    ELSE LET currentPrice == IF outcome.kind = "ok" /\ outcome.c # 0
                             THEN outcome.c ELSE holding.purchasePrice
             totalCost == Times(holding.purchasePrice, holding.quantity)
             totalValue == Times(currentPrice, holding.quantity)
             profitLoss == F64Sub(totalValue, totalCost)
         IN  [symbol |-> holding.symbol,
              quantity |-> holding.quantity,
              purchasePrice |-> holding.purchasePrice,
              currentPrice |-> currentPrice,
              totalCost |-> totalCost,
              totalValue |-> totalValue,
              profitLoss |-> profitLoss,
              profitLossPercent |->
                  F64Mul(F64Div(profitLoss, totalCost), FromInt(100))]

\* portfolioProfitCalculatorTool: its map callback, try and catch branch
ProfitTask(holding, outcome) == Fulfilled(ProfitEntry(holding, outcome))

\* Promise.all on the callbacks' promises: the values by input index,
\* whatever the order the promises settled in
PromiseAll(tasks, order) == [i \in 1 .. Len(tasks) |-> tasks[i].value]

\* the compare function handed to Array.prototype.sort, as the sort sees it:
\* negative, zero or positive, and zero when the difference is NaN
Order(a, b, descending) ==
    LET v == IF descending THEN F64Sub(b.profitLossPercent, a.profitLossPercent)
             ELSE F64Sub(a.profitLossPercent, b.profitLossPercent)
    IN  IF F64IsNaN(v) THEN 0
        ELSE IF F64Lt(v, FromInt(0)) THEN -1
        ELSE IF F64Lt(FromInt(0), v) THEN 1 ELSE 0

(***************************************************************************)
(* Array.prototype.sort(compare) as V8 does it (TimSort): the array is cut *)
(* into runs, a descending run is turned round and a short one is filled   *)
(* up to the minimal run length by binary insertion; runs are merged as    *)
(* the lengths on the stack of pending runs demand, galloping when one run *)
(* keeps winning.  An array shorter than 64 is one run.  The sort is a     *)
(* state machine: pc is the place in the algorithm, one step is one pass   *)
(* of the loop pc stands in.  Indices start at 0, as in the array.         *)
(***************************************************************************)
Elem(a, i) == a[i + 1]
Put(a, i, x) == [a EXCEPT ![i + 1] = x]
\* target with length elements of source from srcPos copied to dstPos on
Copy(source, srcPos, target, dstPos, length) ==
    [i \in 1 .. Len(target) |->
        IF dstPos < i /\ i <= dstPos + length THEN source[i - dstPos + srcPos]
        ELSE target[i]]
\* a with the elements from .. to - 1 turned round
ReverseRange(a, from, to) ==
    [i \in 1 .. Len(a) |-> IF from < i /\ i <= to THEN a[from + to + 1 - i] ELSE a[i]]

\* arrays shorter than this are one run
MinMergeLength == 64
\* wins in a row that start galloping, at first, and that keep it going
InitialMinGallop == 7
MinGallopWins == 7

\* the minimal length of a run for an array of n elements; r is 1 once a
\* 1 bit has been shifted off
RECURSIVE MinRunLength(_, _)
MinRunLength(n, r) ==
    IF n >= MinMergeLength THEN MinRunLength(n \div 2, IF n % 2 = 1 THEN 1 ELSE r)
    ELSE n + r
ComputeMinRunLength(n) == MinRunLength(n, 0)

\* the binary search for the place of pivot among a[left .. right - 1]
RECURSIVE InsertionPoint(_, _, _, _, _)
InsertionPoint(a, pivot, left, right, comparefn) ==
    IF left >= right THEN left
    ELSE IF comparefn[pivot, Elem(a, left + ((right - left) \div 2))] < 0
         THEN InsertionPoint(a, pivot, left, left + ((right - left) \div 2), comparefn)
         ELSE InsertionPoint(a, pivot, left + ((right - left) \div 2) + 1, right, comparefn)
\* a[start] moved down to index left
InsertAt(a, left, start) ==
    [i \in 1 .. Len(a) |->
        IF i <= left \/ i > start + 1 THEN a[i]
        ELSE IF i = left + 1 THEN a[start + 1] ELSE a[i - 1]]

\* whether element goes before key: strictly (GallopLeft looks for the
\* leftmost place of key) or not (GallopRight looks for the rightmost)
Precedes(element, key, strict, comparefn) ==
    IF strict THEN comparefn[element, key] < 0
    ELSE comparefn[key, element] >= 0
\* the galloping loop: offsets 1, 3, 7, ... from a[from] in direction dir,
\* while the elements there go before key (toRight) or do not
RECURSIVE GallopOffsets(_, _, _, _, _, _, _, _, _, _)
GallopOffsets(a, key, from, dir, maxOfs, lastOfs, offset, toRight, strict, comparefn) ==
    IF offset < maxOfs
       /\ Precedes(Elem(a, from + dir * offset), key, strict, comparefn) = toRight
    THEN GallopOffsets(a, key, from, dir, maxOfs, offset, 2 * offset + 1,
                       toRight, strict, comparefn)
    ELSE <<lastOfs, IF offset > maxOfs THEN maxOfs ELSE offset>>
\* the binary search that ends a gallop
RECURSIVE GallopSearch(_, _, _, _, _, _, _)
GallopSearch(a, key, base, lastOfs, offset, strict, comparefn) ==
    IF lastOfs >= offset THEN offset
    ELSE IF Precedes(Elem(a, base + lastOfs + ((offset - lastOfs) \div 2)), key,
                     strict, comparefn)
         THEN GallopSearch(a, key, base, lastOfs + ((offset - lastOfs) \div 2) + 1,
                           offset, strict, comparefn)
         ELSE GallopSearch(a, key, base, lastOfs, lastOfs + ((offset - lastOfs) \div 2),
                           strict, comparefn)
GallopedRight(a, key, base, hint, ofs, strict, comparefn) ==
    GallopSearch(a, key, base, ofs[1] + hint + 1, ofs[2] + hint, strict, comparefn)
GallopedLeft(a, key, base, hint, ofs, strict, comparefn) ==
    GallopSearch(a, key, base, hint - ofs[2] + 1, hint - ofs[1], strict, comparefn)
\* the place of key in the run a[base .. base + length - 1], looked for
\* from a[base + hint]
Gallop(a, key, base, length, hint, strict, comparefn) ==
    IF Precedes(Elem(a, base + hint), key, strict, comparefn)
    THEN GallopedRight(a, key, base, hint,
                       GallopOffsets(a, key, base + hint, 1, length - hint, 0, 1,
                                     TRUE, strict, comparefn),
                       strict, comparefn)
    ELSE GallopedLeft(a, key, base, hint,
                      GallopOffsets(a, key, base + hint, -1, hint + 1, 0, 1,
                                    FALSE, strict, comparefn),
                      strict, comparefn)
GallopLeft(a, key, base, length, hint, comparefn) ==
    Gallop(a, key, base, length, hint, TRUE, comparefn)
GallopRight(a, key, base, length, hint, comparefn) ==
    Gallop(a, key, base, length, hint, FALSE, comparefn)

\* the state of a sort that starts: workArray is the array, pendingRuns the
\* stack of runs, low and remaining the part not yet cut into runs
SortState(seq) ==
    [pc |-> "run", workArray |-> seq, pendingRuns |-> << >>,
     low |-> 0, remaining |-> Len(seq), minRunLength |-> ComputeMinRunLength(Len(seq)),
     minGallop |-> InitialMinGallop, idx |-> 0, isDescending |-> FALSE,
     runLength |-> 0, forcing |-> FALSE, tempArray |-> << >>,
     dest |-> 0, cursorTemp |-> 0, cursor |-> 0, baseA |-> 0,
     lengthA |-> 0, lengthB |-> 0, nofWinsA |-> 0, nofWinsB |-> 0]

\* a merge is over: back to MergeCollapse or MergeForceCollapse
Returned(st) == [st EXCEPT !.pc = IF st.forcing THEN "force" ELSE "collapse"]
\* the straightforward loop is left for the galloping loop
Galloping(st, gallop) == [st EXCEPT !.minGallop = @ + 1, !.pc = gallop]
\* the end of a pass of the galloping loop: another pass, or back to the
\* straightforward loop
GallopAgain(st, gallop, one) ==
    IF st.nofWinsA >= MinGallopWins \/ st.nofWinsB >= MinGallopWins
    THEN [st EXCEPT !.pc = gallop]
    ELSE [st EXCEPT !.minGallop = @ + 1, !.nofWinsA = 0, !.nofWinsB = 0, !.pc = one]
LowerGallop(st) == [st EXCEPT !.minGallop = IF @ > 1 THEN @ - 1 ELSE 1]

\* MergeLow: run A is in tempArray, the merge goes upwards from dest;
\* cursor is cursorB
LowSucceed(st) ==
    Returned([st EXCEPT !.workArray =
                 IF st.lengthA > 0
                 THEN Copy(st.tempArray, st.cursorTemp, st.workArray, st.dest, st.lengthA)
                 ELSE st.workArray])
LowCopyB(st) ==
    Returned([st EXCEPT !.workArray =
                 Put(Copy(st.workArray, st.cursor, st.workArray, st.dest, st.lengthB),
                     st.dest + st.lengthB, Elem(st.tempArray, st.cursorTemp))])
LowTakeB(st) ==
    [st EXCEPT !.workArray = Put(st.workArray, st.dest, Elem(st.workArray, st.cursor)),
               !.dest = @ + 1, !.cursor = @ + 1, !.lengthB = @ - 1]
LowTakeA(st) ==
    [st EXCEPT !.workArray = Put(st.workArray, st.dest, Elem(st.tempArray, st.cursorTemp)),
               !.dest = @ + 1, !.cursorTemp = @ + 1, !.lengthA = @ - 1]
LowStart(st) ==
    IF st.lengthB = 0 THEN LowSucceed(st)
    ELSE IF st.lengthA = 1 THEN LowCopyB(st)
    ELSE [st EXCEPT !.pc = "lowOne"]
MergeLow(st, baseA, lengthA, baseB, lengthB) ==
    LowStart([st EXCEPT !.tempArray = SubSeq(st.workArray, baseA + 1, baseA + lengthA),
                        !.workArray = Put(st.workArray, baseA, Elem(st.workArray, baseB)),
                        !.dest = baseA + 1, !.cursorTemp = 0, !.cursor = baseB + 1,
                        !.baseA = baseA, !.lengthA = lengthA, !.lengthB = lengthB - 1,
                        !.nofWinsA = 0, !.nofWinsB = 0])
LowWonB(st) ==
    IF st.lengthB = 0 THEN LowSucceed(st)
    ELSE IF st.nofWinsB >= st.minGallop THEN Galloping(st, "lowGallopA") ELSE st
LowWonA(st) ==
    IF st.lengthA = 1 THEN LowCopyB(st)
    ELSE IF st.nofWinsA >= st.minGallop THEN Galloping(st, "lowGallopA") ELSE st
StepLowOne(st, comparefn) ==
    IF comparefn[Elem(st.workArray, st.cursor), Elem(st.tempArray, st.cursorTemp)] < 0
    THEN LowWonB([LowTakeB(st) EXCEPT !.nofWinsB = @ + 1, !.nofWinsA = 0])
    ELSE LowWonA([LowTakeA(st) EXCEPT !.nofWinsA = @ + 1, !.nofWinsB = 0])
LowCopiedA(st) ==
    IF st.lengthA = 1 THEN LowCopyB(st)
    ELSE IF st.lengthA = 0 THEN LowSucceed(st)
    ELSE [st EXCEPT !.pc = "lowTakeB"]
LowGallopedA(st, nofWinsA) ==
    IF nofWinsA > 0
    THEN LowCopiedA([st EXCEPT
             !.nofWinsA = nofWinsA,
             !.workArray = Copy(st.tempArray, st.cursorTemp, st.workArray, st.dest, nofWinsA),
             !.dest = @ + nofWinsA, !.cursorTemp = @ + nofWinsA,
             !.lengthA = @ - nofWinsA])
    ELSE [st EXCEPT !.nofWinsA = 0, !.pc = "lowTakeB"]
StepLowGallopA(st, comparefn) ==
    LowGallopedA(LowerGallop(st),
                 GallopRight(st.tempArray, Elem(st.workArray, st.cursor), st.cursorTemp,
                             st.lengthA, 0, comparefn))
LowTookB(st) ==
    IF st.lengthB = 0 THEN LowSucceed(st) ELSE [st EXCEPT !.pc = "lowGallopB"]
StepLowTakeB(st) == LowTookB(LowTakeB(st))
LowCopiedB(st) ==
    IF st.lengthB = 0 THEN LowSucceed(st) ELSE [st EXCEPT !.pc = "lowTakeA"]
LowGallopedB(st, nofWinsB) ==
    IF nofWinsB > 0
    THEN LowCopiedB([st EXCEPT
             !.nofWinsB = nofWinsB,
             !.workArray = Copy(st.workArray, st.cursor, st.workArray, st.dest, nofWinsB),
             !.dest = @ + nofWinsB, !.cursor = @ + nofWinsB,
             !.lengthB = @ - nofWinsB])
    ELSE [st EXCEPT !.nofWinsB = 0, !.pc = "lowTakeA"]
StepLowGallopB(st, comparefn) ==
    LowGallopedB(st, GallopLeft(st.workArray, Elem(st.tempArray, st.cursorTemp), st.cursor,
                                st.lengthB, 0, comparefn))
LowTookA(st) ==
    IF st.lengthA = 1 THEN LowCopyB(st) ELSE GallopAgain(st, "lowGallopA", "lowOne")
StepLowTakeA(st) == LowTookA(LowTakeA(st))

\* MergeHigh: run B is in tempArray, the merge goes downwards from dest;
\* cursor is cursorA
HighSucceed(st) ==
    Returned([st EXCEPT !.workArray =
                 IF st.lengthB > 0
                 THEN Copy(st.tempArray, 0, st.workArray, st.dest - (st.lengthB - 1),
                           st.lengthB)
                 ELSE st.workArray])
HighCopyA(st) ==
    Returned([st EXCEPT !.workArray =
                 Put(Copy(st.workArray, st.cursor - st.lengthA + 1, st.workArray,
                          st.dest - st.lengthA + 1, st.lengthA),
                     st.dest - st.lengthA, Elem(st.tempArray, st.cursorTemp))])
HighTakeA(st) ==
    [st EXCEPT !.workArray = Put(st.workArray, st.dest, Elem(st.workArray, st.cursor)),
               !.dest = @ - 1, !.cursor = @ - 1, !.lengthA = @ - 1]
HighTakeB(st) ==
    [st EXCEPT !.workArray = Put(st.workArray, st.dest, Elem(st.tempArray, st.cursorTemp)),
               !.dest = @ - 1, !.cursorTemp = @ - 1, !.lengthB = @ - 1]
HighStart(st) ==
    IF st.lengthA = 0 THEN HighSucceed(st)
    ELSE IF st.lengthB = 1 THEN HighCopyA(st)
    ELSE [st EXCEPT !.pc = "highOne"]
MergeHigh(st, baseA, lengthA, baseB, lengthB) ==
    HighStart([st EXCEPT !.tempArray = SubSeq(st.workArray, baseB + 1, baseB + lengthB),
                         !.workArray = Put(st.workArray, baseB + lengthB - 1,
                                           Elem(st.workArray, baseA + lengthA - 1)),
                         !.dest = baseB + lengthB - 2, !.cursorTemp = lengthB - 1,
                         !.cursor = baseA + lengthA - 2,
                         !.baseA = baseA, !.lengthA = lengthA - 1, !.lengthB = lengthB,
                         !.nofWinsA = 0, !.nofWinsB = 0])
HighWonA(st) ==
    IF st.lengthA = 0 THEN HighSucceed(st)
    ELSE IF st.nofWinsA >= st.minGallop THEN Galloping(st, "highGallopA") ELSE st
HighWonB(st) ==
    IF st.lengthB = 1 THEN HighCopyA(st)
    ELSE IF st.nofWinsB >= st.minGallop THEN Galloping(st, "highGallopA") ELSE st
StepHighOne(st, comparefn) ==
    IF comparefn[Elem(st.tempArray, st.cursorTemp), Elem(st.workArray, st.cursor)] < 0
    THEN HighWonA([HighTakeA(st) EXCEPT !.nofWinsA = @ + 1, !.nofWinsB = 0])
    ELSE HighWonB([HighTakeB(st) EXCEPT !.nofWinsB = @ + 1, !.nofWinsA = 0])
HighCopiedA(st) ==
    IF st.lengthA = 0 THEN HighSucceed(st) ELSE [st EXCEPT !.pc = "highTakeB"]
HighGallopedA(st, nofWinsA) ==
    IF nofWinsA > 0
    THEN HighCopiedA([st EXCEPT
             !.nofWinsA = nofWinsA,
             !.workArray = Copy(st.workArray, st.cursor - nofWinsA + 1, st.workArray,
                                st.dest - nofWinsA + 1, nofWinsA),
             !.dest = @ - nofWinsA, !.cursor = @ - nofWinsA,
             !.lengthA = @ - nofWinsA])
    ELSE [st EXCEPT !.nofWinsA = 0, !.pc = "highTakeB"]
StepHighGallopA(st, comparefn) ==
    HighGallopedA(LowerGallop(st),
                  st.lengthA - GallopRight(st.workArray, Elem(st.tempArray, st.cursorTemp),
                                           st.baseA, st.lengthA, st.lengthA - 1, comparefn))
HighTookB(st) ==
    IF st.lengthB = 1 THEN HighCopyA(st) ELSE [st EXCEPT !.pc = "highGallopB"]
StepHighTakeB(st) == HighTookB(HighTakeB(st))
HighCopiedB(st) ==
    IF st.lengthB = 1 THEN HighCopyA(st)
    ELSE IF st.lengthB = 0 THEN HighSucceed(st)
    ELSE [st EXCEPT !.pc = "highTakeA"]
HighGallopedB(st, nofWinsB) ==
    IF nofWinsB > 0
    THEN HighCopiedB([st EXCEPT
             !.nofWinsB = nofWinsB,
             !.workArray = Copy(st.tempArray, st.cursorTemp - nofWinsB + 1, st.workArray,
                                st.dest - nofWinsB + 1, nofWinsB),
             !.dest = @ - nofWinsB, !.cursorTemp = @ - nofWinsB,
             !.lengthB = @ - nofWinsB])
    ELSE [st EXCEPT !.nofWinsB = 0, !.pc = "highTakeA"]
StepHighGallopB(st, comparefn) ==
    HighGallopedB(st, st.lengthB - GallopLeft(st.tempArray, Elem(st.workArray, st.cursor), 0,
                                              st.lengthB, st.lengthB - 1, comparefn))
HighTookA(st) ==
    IF st.lengthA = 0 THEN HighSucceed(st) ELSE GallopAgain(st, "highGallopA", "highOne")
StepHighTakeA(st) == HighTookA(HighTakeA(st))

\* MergeAt: the runs i and i + 1 of the stack become one; what of A is
\* before the start of B and what of B is after the end of A stay in place
MergedRuns(runs, i) ==
    [j \in 1 .. (Len(runs) - 1) |->
        IF j <= i THEN runs[j]
        ELSE IF j = i + 1
             THEN [base |-> runs[j].base, length |-> runs[j].length + runs[j + 1].length]
             ELSE runs[j + 1]]
MergeUpTo(st, baseA, lengthA, baseB, lengthB) ==
    IF lengthB = 0 THEN Returned(st)
    ELSE IF lengthA <= lengthB THEN MergeLow(st, baseA, lengthA, baseB, lengthB)
    ELSE MergeHigh(st, baseA, lengthA, baseB, lengthB)
MergeFrom(st, baseA, lengthA, baseB, lengthB, comparefn) ==
    IF lengthA = 0 THEN Returned(st)
    ELSE MergeUpTo(st, baseA, lengthA, baseB,
                   GallopLeft(st.workArray, Elem(st.workArray, baseA + lengthA - 1), baseB,
                              lengthB, lengthB - 1, comparefn))
MergeRuns(st, baseA, lengthA, baseB, lengthB, k, comparefn) ==
    MergeFrom(st, baseA + k, lengthA - k, baseB, lengthB, comparefn)
MergeAt(st, i, comparefn) ==
    MergeRuns([st EXCEPT !.pendingRuns = MergedRuns(@, i)],
              Elem(st.pendingRuns, i).base, Elem(st.pendingRuns, i).length,
              Elem(st.pendingRuns, i + 1).base, Elem(st.pendingRuns, i + 1).length,
              GallopRight(st.workArray, Elem(st.workArray, Elem(st.pendingRuns, i + 1).base),
                          Elem(st.pendingRuns, i).base, Elem(st.pendingRuns, i).length, 0,
                          comparefn),
              comparefn)

\* MergeCollapse and MergeForceCollapse
RunLengthAt(runs, n) == Elem(runs, n).length
RunInvariantEstablished(runs, n) ==
    n < 2 \/ RunLengthAt(runs, n - 2) > RunLengthAt(runs, n - 1) + RunLengthAt(runs, n)
CollapseAt(st, n, comparefn) ==
    IF ~RunInvariantEstablished(st.pendingRuns, n + 1)
       \/ ~RunInvariantEstablished(st.pendingRuns, n)
    THEN MergeAt(st, IF RunLengthAt(st.pendingRuns, n - 1) < RunLengthAt(st.pendingRuns, n + 1)
                     THEN n - 1 ELSE n,
                 comparefn)
    ELSE IF RunLengthAt(st.pendingRuns, n) <= RunLengthAt(st.pendingRuns, n + 1)
         THEN MergeAt(st, n, comparefn)
         ELSE [st EXCEPT !.pc = "advance"]
StepCollapse(st, comparefn) ==
    IF Len(st.pendingRuns) > 1 THEN CollapseAt(st, Len(st.pendingRuns) - 2, comparefn)
    ELSE [st EXCEPT !.pc = "advance"]
ForceAt(st, n, comparefn) ==
    MergeAt(st, IF n > 0 /\ RunLengthAt(st.pendingRuns, n - 1) < RunLengthAt(st.pendingRuns, n + 1)
                THEN n - 1 ELSE n,
            comparefn)
StepForce(st, comparefn) ==
    IF Len(st.pendingRuns) > 1 THEN ForceAt(st, Len(st.pendingRuns) - 2, comparefn)
    ELSE [st EXCEPT !.pc = "done"]

\* CountAndMakeRun and BinaryInsertionSort: the run that starts at low is
\* counted, turned round when it descends, and filled up when it is short
RunMade(st, workArray, runLength) ==
    IF runLength < st.minRunLength
    THEN [st EXCEPT !.workArray = workArray, !.pc = "insert", !.idx = st.low + runLength,
                    !.runLength = IF st.minRunLength < st.remaining
                                  THEN st.minRunLength ELSE st.remaining]
    ELSE [st EXCEPT !.workArray = workArray, !.pc = "push", !.runLength = runLength]
StepRun(st, comparefn) ==
    IF st.remaining = 0 THEN [st EXCEPT !.pc = "force", !.forcing = TRUE]
    ELSE IF st.remaining = 1 THEN RunMade(st, st.workArray, 1)
    ELSE [st EXCEPT !.pc = "count", !.idx = st.low + 2,
                    !.isDescending = comparefn[Elem(st.workArray, st.low + 1),
                                           Elem(st.workArray, st.low)] < 0]
RunBreaks(isDescending, order) == IF isDescending THEN order >= 0 ELSE order < 0
StepCount(st, comparefn) ==
    IF st.idx < st.low + st.remaining
       /\ ~RunBreaks(st.isDescending,
                     comparefn[Elem(st.workArray, st.idx), Elem(st.workArray, st.idx - 1)])
    THEN [st EXCEPT !.idx = @ + 1]
    ELSE RunMade(st, IF st.isDescending THEN ReverseRange(st.workArray, st.low, st.idx)
                     ELSE st.workArray,
                 st.idx - st.low)
StepInsert(st, comparefn) ==
    IF st.idx < st.low + st.runLength
    THEN [st EXCEPT !.workArray =
                        InsertAt(st.workArray,
                                 InsertionPoint(st.workArray, Elem(st.workArray, st.idx),
                                                st.low, st.idx, comparefn),
                                 st.idx),
                    !.idx = @ + 1]
    ELSE [st EXCEPT !.pc = "push"]
StepPush(st) ==
    [st EXCEPT !.pendingRuns = Append(@, [base |-> st.low, length |-> st.runLength]),
               !.pc = "collapse"]
StepAdvance(st) ==
    [st EXCEPT !.low = @ + st.runLength, !.remaining = @ - st.runLength, !.pc = "run"]

\* one step of the sort
Step(st, comparefn) ==
    CASE st.pc = "run" -> StepRun(st, comparefn)
      [] st.pc = "count" -> StepCount(st, comparefn)
      [] st.pc = "insert" -> StepInsert(st, comparefn)
      [] st.pc = "push" -> StepPush(st)
      [] st.pc = "collapse" -> StepCollapse(st, comparefn)
      [] st.pc = "advance" -> StepAdvance(st)
      [] st.pc = "force" -> StepForce(st, comparefn)
      [] st.pc = "lowOne" -> StepLowOne(st, comparefn)
      [] st.pc = "lowGallopA" -> StepLowGallopA(st, comparefn)
      [] st.pc = "lowTakeB" -> StepLowTakeB(st)
      [] st.pc = "lowGallopB" -> StepLowGallopB(st, comparefn)
      [] st.pc = "lowTakeA" -> StepLowTakeA(st)
      [] st.pc = "highOne" -> StepHighOne(st, comparefn)
      [] st.pc = "highGallopA" -> StepHighGallopA(st, comparefn)
      [] st.pc = "highTakeB" -> StepHighTakeB(st)
      [] st.pc = "highGallopB" -> StepHighGallopB(st, comparefn)
      [] st.pc = "highTakeA" -> StepHighTakeA(st)
\* up to 2^k steps
RECURSIVE Steps(_, _, _)
Steps(st, k, comparefn) ==
    IF st.pc = "done" THEN st
    ELSE IF k = 0 THEN Step(st, comparefn)
    ELSE Steps(Steps(st, k - 1, comparefn), k - 1, comparefn)
\* steps until the sort is done: 1, 2, 4, ... at a time
RECURSIVE Sorted(_, _, _)
Sorted(st, k, comparefn) ==
    IF st.pc = "done" THEN st ELSE Sorted(Steps(st, k, comparefn), k + 1, comparefn)
ArrayTimSortImpl(seq, comparefn) == Sorted(SortState(seq), 0, comparefn).workArray

\* Array.prototype.sort(compare) on holdings
SortByPercent(seq, descending) ==
    IF Len(seq) < 2 THEN seq
    ELSE ArrayTimSortImpl(seq, [a \in { seq[i] : i \in 1 .. Len(seq) },
                                b \in { seq[i] : i \in 1 .. Len(seq) } |->
                                   Order(a, b, descending)])

\* portfolioProfitCalculatorTool: the holdings array after the summary
\* template has sorted it in place for Top Performer (twice, descending)
\* and Worst Performer (twice, ascending)
AfterSummary(holdings) ==
    SortByPercent(SortByPercent(SortByPercent(SortByPercent(holdings, TRUE), TRUE),
                                FALSE),
                  FALSE)

\* the loop body with a price at the target counted as past it
AlertStepAtTarget(triggered, alert, outcome) ==
    LET currentPrice == IF outcome.kind = "ok" /\ outcome.c # 0 THEN outcome.c ELSE 0
        isTriggered == \/ (alert.condition = "below" /\ currentPrice <= alert.targetPrice)
                       \/ (alert.condition = "above" /\ currentPrice >= alert.targetPrice)
    IN  IF outcome.kind # "fail" /\ currentPrice > 0 /\ isTriggered
        THEN Append(triggered, [symbol |-> alert.symbol,
                                currentPrice |-> currentPrice,
                                targetPrice |-> alert.targetPrice,
                                condition |-> alert.condition])
        ELSE triggered

\* alertCheckerTool: the body of its loop for one alert, given the array so far
AlertStep(triggered, alert, outcome) ==
    LET currentPrice == IF outcome.kind = "ok" /\ outcome.c # 0 THEN outcome.c ELSE 0
        isTriggered == \/ (alert.condition = "below" /\ currentPrice < alert.targetPrice)
                       \/ (alert.condition = "above" /\ currentPrice > alert.targetPrice)
    IN  IF outcome.kind # "fail" /\ currentPrice > 0 /\ isTriggered
        THEN Append(triggered, [symbol |-> alert.symbol,
                                currentPrice |-> currentPrice,
                                targetPrice |-> alert.targetPrice,
                                condition |-> alert.condition])
        ELSE triggered

(***************************************************************************)
(* The advisor's analysis.  Three versions are in the repository:          *)
(*   "advisor"            fetches quotes itself, risk from concentration   *)
(*   "advisorSimplified"  is given currentPrice, risk from concentration   *)
(*   "advisorIndex"       is given currentPrice, risk from volatility      *)
(* A finding (strength, weakness, recommendation, action item) is kept as  *)
(* the rule that pushed it and the symbol its text names ("" for none).    *)
(***************************************************************************)
Finding(rule, symbol) == [rule |-> rule, symbol |-> symbol]
When(cond, finding) == IF cond THEN <<finding>> ELSE << >>

RECURSIVE SumInts(_)
SumInts(xs) == IF xs = << >> THEN 0 ELSE Head(xs) + SumInts(Tail(xs))
\* numbers.reduce((sum, x) => sum + x, 0): the sum is taken from the left
RECURSIVE SumNumbers(_)
SumNumbers(xs) ==
    IF xs = << >> THEN FromInt(0)
    ELSE F64Add(SumNumbers(SubSeq(xs, 1, Len(xs) - 1)), xs[Len(xs)])

\* the score without its cap
DiversificationScoreUncapped(numHoldings) == numHoldings * 20

\* Math.min(numHoldings * 20, 100)
DiversificationScore(numHoldings) ==
    IF numHoldings * 20 < 100 THEN numHoldings * 20 ELSE 100

\* Math.min(maxConcentration * 2, 100)
RiskScore(maxConcentration) == F64Min(F64Mul(maxConcentration, FromInt(2)), FromInt(100))

\* the rating taken from the rounded risk score
OverallRatingRounded(diversificationScore, riskScore) ==
    IF diversificationScore > 70 /\ F64Lt(F64Round(riskScore), FromInt(50)) THEN "EXCELLENT"
    ELSE IF diversificationScore > 50 /\ F64Lt(F64Round(riskScore), FromInt(70)) THEN "GOOD"
    ELSE "NEEDS IMPROVEMENT"

\* the overallRating expression, on the scores before Math.round
OverallRating(diversificationScore, riskScore) ==
    IF diversificationScore > 70 /\ F64Lt(riskScore, FromInt(50)) THEN "EXCELLENT"
    ELSE IF diversificationScore > 50 /\ F64Lt(riskScore, FromInt(70)) THEN "GOOD"
    ELSE "NEEDS IMPROVEMENT"

\* (value / totalValue) * 100
Share(value, totalValue) == F64Mul(F64Div(value, totalValue), FromInt(100))

\* portfolioAdvisorTool (fetching version): everything after Promise.all.
\* maxConcentration and riskScoreUnrounded are its local values, kept next
\* to the fields it returns.
AdvisorAnalysis(holdings) ==
    LET totalValue == SumNumbers([i \in 1 .. Len(holdings) |-> holdings[i].totalValue])
        totalCost == SumNumbers([i \in 1 .. Len(holdings) |->
                         F64Mul(holdings[i].avgCost, FromInt(holdings[i].quantity))])
        totalGain == F64Sub(totalValue, totalCost)
        totalGainPercent == F64Mul(F64Div(totalGain, totalCost), FromInt(100))
        numHoldings == Len(holdings)
        diversificationScore == DiversificationScore(numHoldings)
        concentrationRisk == [i \in 1 .. Len(holdings) |->
                                 Share(holdings[i].totalValue, totalValue)]
        maxConcentration == MathMax(concentrationRisk)
        riskScore == RiskScore(maxConcentration)
        few == numHoldings < 3
        many == (~few) /\ numHoldings >= 5
        concentrated == F64Lt(FromInt(40), maxConcentration)
        strong == F64Lt(FromInt(10), totalGainPercent)
        negative == (~strong) /\ F64Lt(totalGainPercent, FromInt(-5))
    IN  [overallRating |-> OverallRating(diversificationScore, riskScore),
         riskScore |-> F64Round(riskScore),
         diversificationScore |-> diversificationScore,
         recommendations |-> When(few, Finding("add-holdings", ""))
                             \o When(concentrated, Finding("reduce-concentration", ""))
                             \o When(negative, Finding("review-underperformers", "")),
         strengths |-> When(many, Finding("well-diversified", ""))
                       \o When(strong, Finding("strong-returns", "")),
         weaknesses |-> When(few, Finding("insufficient-diversification", ""))
                        \o When(concentrated, Finding("concentration", ""))
                        \o When(negative, Finding("negative-returns", "")),
         actionItems |-> << >>,
         totalValue |-> totalValue,
         totalCost |-> totalCost,
         totalGain |-> totalGain,
         totalGainPercent |-> totalGainPercent,
         maxConcentration |-> maxConcentration,
         riskScoreUnrounded |-> riskScore]

\* portfolioAdvisorTool (simplified tool set): execute
AdvisorSimplified(pf) ==
    LET numHoldings == Len(pf)
        price(h) == IF h.currentPrice # 0 THEN h.currentPrice ELSE h.purchasePrice
        totalValue == SumInts([i \in 1 .. Len(pf) |-> price(pf[i]) * pf[i].quantity])
        diversificationScore == DiversificationScore(numHoldings)
        concentrationRisk == [i \in 1 .. Len(pf) |->
                                 Share(Times(price(pf[i]), pf[i].quantity),
                                       FromInt(totalValue))]
        maxConcentration == MathMax(concentrationRisk)
        riskScore == RiskScore(maxConcentration)
        few == numHoldings < 3
        many == (~few) /\ numHoldings >= 5
        concentrated == F64Lt(FromInt(40), maxConcentration)
    IN  [overallRating |-> OverallRating(diversificationScore, riskScore),
         riskScore |-> F64Round(riskScore),
         diversificationScore |-> diversificationScore,
         recommendations |-> When(diversificationScore < 60, Finding("increase-diversification", ""))
                             \o When(F64Lt(FromInt(70), riskScore), Finding("rebalance", "")),
         strengths |-> When(many, Finding("well-diversified", "")),
         weaknesses |-> When(few, Finding("insufficient-diversification", ""))
                        \o When(concentrated, Finding("concentration", "")),
         actionItems |-> When(few, Finding("add-holdings", ""))
                         \o When(concentrated, Finding("reduce-concentration", "")),
         totalValue |-> FromInt(totalValue),
         maxConcentration |-> maxConcentration,
         riskScoreUnrounded |-> riskScore]

\* portfolioAdvisorTool (tools/index.ts): its concentration check, one
\* weakness and one action item for every holding above 40 percent
RECURSIVE ConcentrationCheck(_, _, _)
ConcentrationCheck(pf, totalValue, rule) ==
    IF pf = << >> THEN << >>
    ELSE LET holding == Head(pf)
             percentage == Share(Times(holding.currentPrice, holding.quantity),
                                 FromInt(totalValue))
         IN  When(F64Lt(FromInt(40), percentage), Finding(rule, holding.symbol))
             \o ConcentrationCheck(Tail(pf), totalValue, rule)

\* portfolioAdvisorTool (tools/index.ts): execute
AdvisorIndex(pf) ==
    LET totalValue == SumInts([i \in 1 .. Len(pf) |-> pf[i].currentPrice * pf[i].quantity])
        numHoldings == Len(pf)
        diversificationScore == DiversificationScore(numHoldings)
        totalGain == SumInts([i \in 1 .. Len(pf) |->
                         (pf[i].currentPrice - pf[i].purchasePrice) * pf[i].quantity])
        volatility == F64Abs(Share(FromInt(totalGain), FromInt(totalValue)))
        riskScore == F64Min(F64Mul(volatility, FromInt(10)), FromInt(100))
        few == numHoldings < 3
        many == (~few) /\ numHoldings >= 5
    IN  [overallRating |-> OverallRating(diversificationScore, riskScore),
         riskScore |-> F64Round(riskScore),
         diversificationScore |-> diversificationScore,
         recommendations |-> When(~(totalGain > 0), Finding("tax-loss-harvesting", ""))
                             \o When(F64Lt(FromInt(70), riskScore), Finding("add-stable-stocks", ""))
                             \o When(diversificationScore < 60, Finding("increase-diversification", "")),
         strengths |-> When(many, Finding("well-diversified", ""))
                       \o When(totalGain > 0, Finding("profitable", "")),
         weaknesses |-> When(few, Finding("insufficient-diversification", ""))
                        \o ConcentrationCheck(pf, totalValue, "concentration"),
         actionItems |-> When(few, Finding("add-holdings", ""))
                         \o ConcentrationCheck(pf, totalValue, "reduce-concentration"),
         totalValue |-> FromInt(totalValue),
         riskScoreUnrounded |-> riskScore]

(***************************************************************************)
(* The rebalancing analyzer.  A target allocation is a function from the   *)
(* symbols it names to percentages; << >> is the empty record {}.          *)
(* currentAllocation, idealAllocation and sp500Returns are plain objects:  *)
(* a key they do not have themselves is looked up in Object.prototype.     *)
(***************************************************************************)
NoTargets == << >>

\* the keys every plain object inherits from Object.prototype
ObjectPrototypeKeys ==
    {"constructor", "toString", "toLocaleString", "valueOf", "hasOwnProperty",
     "isPrototypeOf", "propertyIsEnumerable", "__defineGetter__", "__defineSetter__",
     "__lookupGetter__", "__lookupSetter__", "__proto__"}
\* a value that is no Number: a function, or the object Object.prototype
NotANumber(kind) == [k |-> kind, s |-> 1, m |-> << >>, e |-> 0]
\* object[key] for an inherited key: __proto__ reads Object.prototype, the
\* other keys its methods
Inherited(key) == NotANumber(IF key = "__proto__" THEN "object" ELSE "function")
\* the Number an operand of - or > is turned into
ToNumber(v) == IF v.k \in {"function", "object"} THEN NaNValue ELSE v

\* currentAllocation[symbol] after the forEach that fills it: the share of
\* the last holding of that symbol; a Number assigned to __proto__ is
\* dropped and what is read there is Object.prototype
RECURSIVE CurrentAllocation(_, _, _)
CurrentAllocation(pf, totalValue, symbol) ==
    IF symbol = "__proto__" THEN Inherited(symbol)
    ELSE IF pf[Len(pf)].symbol = symbol THEN Share(FromInt(pf[Len(pf)].totalValue),
                                                    FromInt(totalValue))
    ELSE CurrentAllocation(SubSeq(pf, 1, Len(pf) - 1), totalValue, symbol)
\* the keys currentAllocation has itself
AllocationKeys(pf) == { pf[i].symbol : i \in 1 .. Len(pf) } \ {"__proto__"}

Suggestion(action, symbol, shares) ==
    [action |-> action, symbol |-> symbol, shares |-> shares]

\* the body of the forEach that detects imbalances, for holding i and on;
\* targets[i] is the target the body computes for holding i
RECURSIVE Detect(_, _, _, _, _)
Detect(pf, targets, totalValue, i, acc) ==
    IF i > Len(pf) THEN acc
    ELSE LET holding == pf[i]
             target == ToNumber(targets[i])
             current == ToNumber(CurrentAllocation(pf, totalValue, holding.symbol))
             deviation == F64Abs(F64Sub(current, target))
             targetValue == F64Div(F64Mul(FromInt(totalValue), target), FromInt(100))
             reduce == Suggestion("REDUCE", holding.symbol,
                           F64Floor(F64Div(F64Sub(FromInt(holding.totalValue), targetValue),
                                           FromInt(holding.currentPrice))))
             increase == Suggestion("INCREASE", holding.symbol,
                             F64Ceil(F64Div(F64Sub(targetValue, FromInt(holding.totalValue)),
                                            FromInt(holding.currentPrice))))
         IN  Detect(pf, targets, totalValue, i + 1,
                 [maxDeviation |-> IF F64Lt(acc.maxDeviation, deviation)
                                   THEN deviation ELSE acc.maxDeviation,
                  suggestions |-> IF F64Lt(FromInt(10), deviation)
                                  THEN Append(acc.suggestions,
                                           IF F64Lt(target, current) THEN reduce ELSE increase)
                                  ELSE acc.suggestions])

\* the result with balance granted up to 20 points
RebalanceResultUpTo20(pf, targets) ==
    LET totalValue == SumInts([i \in 1 .. Len(pf) |-> pf[i].totalValue])
        found == Detect(pf, targets, totalValue, 1,
                        [maxDeviation |-> FromInt(0), suggestions |-> << >>])
    IN  [isBalanced |-> F64Lt(found.maxDeviation, FromInt(20)),
         currentAllocation |->
             [y \in AllocationKeys(pf) |-> CurrentAllocation(pf, totalValue, y)],
         suggestions |-> found.suggestions,
         totalValue |-> totalValue,
         maxDeviation |-> found.maxDeviation]

\* what execute returns; maxDeviation is its local value
RebalanceResult(pf, targets) ==
    LET totalValue == SumInts([i \in 1 .. Len(pf) |-> pf[i].totalValue])
        found == Detect(pf, targets, totalValue, 1,
                        [maxDeviation |-> FromInt(0), suggestions |-> << >>])
    IN  [isBalanced |-> F64Lt(found.maxDeviation, FromInt(10)),
         currentAllocation |->
             [y \in AllocationKeys(pf) |-> CurrentAllocation(pf, totalValue, y)],
         suggestions |-> found.suggestions,
         totalValue |-> totalValue,
         maxDeviation |-> found.maxDeviation]

\* 100 / numHoldings
EqualWeight(pf) == F64Div(FromInt(100), FromInt(Len(pf)))

\* idealAllocation[holding.symbol] || equalWeight: the entry of the symbol
\* unless it is 0, what the object inherits under that key when it has
\* no entry, equalWeight otherwise
TargetOf(pf, idealAllocation, symbol) ==
    IF symbol \in DOMAIN idealAllocation
    THEN (IF idealAllocation[symbol] # 0 THEN FromInt(idealAllocation[symbol])
          ELSE EqualWeight(pf))
    ELSE IF symbol \in ObjectPrototypeKeys THEN Inherited(symbol)
    ELSE EqualWeight(pf)

\* rebalancingAnalyzerTool (tools/index.ts): execute
Rebalance(pf, targetAllocation) ==
    RebalanceResult(pf, [i \in 1 .. Len(pf) |-> TargetOf(pf, targetAllocation, pf[i].symbol)])

\* rebalancingAnalyzerTool (equal weights only): execute
RebalanceEqualWeight(pf) ==
    RebalanceResult(pf, [i \in 1 .. Len(pf) |-> EqualWeight(pf)])

(***************************************************************************)
(* The benchmark comparison                                                *)
(***************************************************************************)
\* sp500Returns, in percent
Sp500Returns ==
    [period \in {"1M", "3M", "6M", "1Y", "YTD"} |->
        CASE period = "1M" -> Quotient(21, 10)
          [] period = "3M" -> Quotient(55, 10)
          [] period = "6M" -> Quotient(82, 10)
          [] period = "1Y" -> Quotient(105, 10)
          [] period = "YTD" -> Quotient(123, 10)]

\* benchmarkComparisonTool: execute; timePeriod "" is an absent timePeriod
BenchmarkComparison(portfolioValue, portfolioCostBasis, timePeriod) ==
    LET portfolioReturn ==
            F64Mul(F64Div(FromInt(portfolioValue - portfolioCostBasis),
                          FromInt(portfolioCostBasis)), FromInt(100))
        period == IF timePeriod = "" THEN "1Y" ELSE timePeriod
        sp500Return == IF period \in DOMAIN Sp500Returns THEN Sp500Returns[period]
                       ELSE IF period \in ObjectPrototypeKeys THEN Inherited(period)
                       ELSE Quotient(105, 10)
        outperformance == F64Sub(portfolioReturn, ToNumber(sp500Return))
    IN  [portfolioReturn |-> portfolioReturn,
         sp500Return |-> sp500Return,
         outperformance |-> outperformance,
         analysis |-> IF F64Lt(FromInt(5), outperformance) THEN "excellent"
                      ELSE IF F64Lt(FromInt(0), outperformance) THEN "good"
                      ELSE IF F64Lt(FromInt(-5), outperformance) THEN "close"
                      ELSE "underperforming"]

\* the holding that addStock calls for these lots build, first to last
RECURSIVE AddLots(_, _, _)
AddLots(pf, symbol, lots) ==
    IF lots = << >> THEN pf
    ELSE AddLots(AddStockFn(pf, symbol, Head(lots).quantity, Head(lots).price),
                 symbol, Tail(lots))
HoldingOfBuys(symbol, lots) == AddLots(<< >>, symbol, lots)[1]

(***************************************************************************)
(* Inputs of the valuation runs                                            *)
(***************************************************************************)
ValSymbols == {"A", "B", "C"}
\* every sequence of distinct symbols of length up to n
SymbolSeqs(n) ==
    { q \in UNION { [1 .. k -> ValSymbols] : k \in 0 .. n } :
        \A i, j \in 1 .. Len(q) : i # j => q[i] # q[j] }
\* the buys behind one holding
ValLotSeqs == { <<Lot(2, 3)>>, <<Lot(1, 1), Lot(2, 3)>> }
\* the portfolios addStock builds from these
ValPortfolios ==
    { [i \in 1 .. Len(syms) |-> HoldingOfBuys(syms[i], lots[i])] :
        <<syms, lots>> \in
          { <<y, l>> \in SymbolSeqs(MaxValHoldings)
                         \X UNION { [1 .. k -> ValLotSeqs] : k \in 0 .. MaxValHoldings } :
              Len(y) = Len(l) } }
Alerts == [symbol : {"A", "B"}, condition : {"above", "below"}, targetPrice : {2, 3}]
AlertLists == UNION { [1 .. k -> Alerts] : k \in 0 .. MaxAlerts }

(***************************************************************************)
(* Actions of a valuation or alert-checker call                            *)
(***************************************************************************)
ValInit ==
    /\ LedgerInit
    /\ valTool \in {"advisor", "profit", "alerts"}
    /\ apiKey \in BOOLEAN
    /\ valInput \in (IF valTool = "alerts" THEN AlertLists ELSE ValPortfolios)
    /\ quotes = [i \in 1 .. Len(valInput) |-> Pending]
    /\ completed = << >>
    /\ triggeredAlerts = << >>
    /\ valResult = Running

Settle(i, outcome) ==
    /\ quotes' = [quotes EXCEPT ![i] = outcome]
    /\ completed' = Append(completed, i)

\* the fetch of one holding's quote completes; the fetches of the parallel
\* map run concurrently and complete in any order
QuoteReturns(i, outcome) ==
    /\ valTool \in {"advisor", "profit"}
    /\ apiKey
    /\ valResult.status = "running"
    /\ quotes[i] = Pending
    /\ Settle(i, outcome)
    /\ UNCHANGED <<valTool, apiKey, valInput, triggeredAlerts, valResult>>
    /\ UNCHANGED ledgerVars
    /\ UNCHANGED <<memVars, dashVars>>

\* the advisor without API key: a callback runs to its end without a fetch
CallbackWithoutFetch(i) ==
    /\ valTool = "advisor"
    /\ ~apiKey
    /\ valResult.status = "running"
    /\ quotes[i] = Pending
    /\ Settle(i, Outcome("nofetch", 0))
    /\ UNCHANGED <<valTool, apiKey, valInput, triggeredAlerts, valResult>>
    /\ UNCHANGED ledgerVars
    /\ UNCHANGED <<memVars, dashVars>>

\* portfolioAdvisorTool.execute returns once Promise.all has resolved
AdvisorReturns ==
    /\ valTool = "advisor"
    /\ valResult.status = "running"
    /\ \A i \in 1 .. Len(valInput) : quotes[i] # Pending
    /\ LET tasks == [i \in 1 .. Len(valInput) |-> AdvisorTask(valInput[i], quotes[i])]
       IN  valResult' =
             IF \E i \in 1 .. Len(tasks) : tasks[i].rejected
             THEN [status |-> "rejected", holdings |-> << >>]
             ELSE LET holdings == PromiseAll(tasks, completed)
                  IN  [status |-> "done", holdings |-> holdings,
                       advice |-> AdvisorAnalysis(holdings)]
    /\ UNCHANGED <<valTool, apiKey, valInput, quotes, completed, triggeredAlerts>>
    /\ UNCHANGED ledgerVars
    /\ UNCHANGED <<memVars, dashVars>>

\* portfolioProfitCalculatorTool.execute without API key: throws at once
ProfitThrowsNoKey ==
    /\ valTool = "profit"
    /\ ~apiKey
    /\ valResult.status = "running"
    /\ valResult' = [status |-> "rejected", holdings |-> << >>]
    /\ UNCHANGED <<valTool, apiKey, valInput, quotes, completed, triggeredAlerts>>
    /\ UNCHANGED ledgerVars
    /\ UNCHANGED <<memVars, dashVars>>

\* portfolioProfitCalculatorTool.execute returns once Promise.all has resolved
ProfitReturns ==
    /\ valTool = "profit"
    /\ apiKey
    /\ valResult.status = "running"
    /\ \A i \in 1 .. Len(valInput) : quotes[i] # Pending
    /\ LET tasks == [i \in 1 .. Len(valInput) |-> ProfitTask(valInput[i], quotes[i])]
       IN  valResult' =
             IF \E i \in 1 .. Len(tasks) : tasks[i].rejected
             THEN [status |-> "rejected", holdings |-> << >>]
             ELSE [status |-> "done",
                   holdings |-> AfterSummary(PromiseAll(tasks, completed))]
    /\ UNCHANGED <<valTool, apiKey, valInput, quotes, completed, triggeredAlerts>>
    /\ UNCHANGED ledgerVars
    /\ UNCHANGED <<memVars, dashVars>>

\* alertCheckerTool: one turn of its loop; the alerts are fetched one after
\* the other, in input order
AlertChecked(outcome) ==
    LET i == Len(completed) + 1
    IN  /\ valTool = "alerts"
        /\ apiKey
        /\ valResult.status = "running"
        /\ i <= Len(valInput)
        /\ Settle(i, outcome)
        /\ triggeredAlerts' = AlertStep(triggeredAlerts, valInput[i], outcome)
        /\ UNCHANGED <<valTool, apiKey, valInput, valResult>>
        /\ UNCHANGED ledgerVars
        /\ UNCHANGED <<memVars, dashVars>>

\* alertCheckerTool.execute returns: at once without API key, else after the loop
AlertsReturn ==
    /\ valTool = "alerts"
    /\ valResult.status = "running"
    /\ apiKey => Len(completed) = Len(valInput)
    /\ valResult' = [status |-> "done", holdings |-> << >>]
    /\ UNCHANGED <<valTool, apiKey, valInput, quotes, completed, triggeredAlerts>>
    /\ UNCHANGED ledgerVars
    /\ UNCHANGED <<memVars, dashVars>>

ValNext ==
    \/ \E i \in 1 .. Len(valInput), o \in FetchOutcomes : QuoteReturns(i, o)
    \/ \E i \in 1 .. Len(valInput) : CallbackWithoutFetch(i)
    \/ AdvisorReturns
    \/ ProfitThrowsNoKey
    \/ ProfitReturns
    \/ \E o \in FetchOutcomes : AlertChecked(o)
    \/ AlertsReturn

SpecVal == ValInit /\ [][ValNext]_vars

(***************************************************************************)
(* Runs of the analysis tools: the three advisors, the two rebalancing     *)
(* analyzers and the benchmark comparison.  The fetching advisor reads the *)
(* quotes by index once all have returned, so its fetches are taken in     *)
(* input order here; the other tools compute their result in one step.     *)
(***************************************************************************)
SymbolAt(i) == <<"A", "B", "C", "D", "E", "F", "G", "H", "I">>[i]

\* a position given to an advisor: its buys and its current price
Position(lots, price) == [lots |-> lots, price |-> price]
Flat == Position(<<Lot(1, 1)>>, 1)
Gain == Position(<<Lot(1, 1)>>, 4)
Worthless == Position(<<Lot(1, 0)>>, 0)
Loss == Position(<<Lot(1, 4)>>, 1)
\* portfolios of up to MaxAdviceHoldings positions, and some chosen ones
AdvicePositions ==
    UNION { [1 .. k -> {Flat, Gain, Worthless}] : k \in 0 .. MaxAdviceHoldings }
    \cup { <<Loss>>, <<Loss, Flat>>, <<Loss, Flat, Flat>>,
           <<Position(<<Lot(1, 1), Lot(2, 3)>>, 4), Flat>>,
           <<Position(<<Lot(8, 1)>>, 1), Position(<<Lot(8, 1)>>, 1), Position(<<Lot(7, 1)>>, 1)>>,
           <<Position(<<Lot(25, 1)>>, 1), Position(<<Lot(19, 1)>>, 1),
             Position(<<Lot(19, 1)>>, 1), Position(<<Lot(19, 1)>>, 1),
             Position(<<Lot(19, 1)>>, 1)>> }
\* the input of the advisors that are given prices
PricedInput(positions) ==
    [i \in 1 .. Len(positions) |->
        LET holding == HoldingOfBuys(SymbolAt(i), positions[i].lots)
        IN  [symbol |-> holding.symbol, quantity |-> holding.quantity,
             purchasePrice |-> holding.purchasePrice,
             currentPrice |-> positions[i].price]]
PricedInputs == { PricedInput(positions) : positions \in AdvicePositions }

\* the stored portfolios given to the fetching advisor
Aapl == HoldingOfBuys("AAPL", <<Lot(10, 271), Lot(5, 273)>>)
StoredInputs ==
    { [i \in 1 .. k |-> HoldingOfBuys(SymbolAt(i), <<lot>>)] :
        k \in 0 .. MaxAdviceHoldings, lot \in {Lot(1, 1), Lot(1, 0)} }
    \cup { <<Aapl>>, <<Aapl, HoldingOfBuys("A", <<Lot(1, 1)>>)>>,
           <<HoldingOfBuys("A", <<Lot(1, 4)>>)>>,
           <<HoldingOfBuys("A", <<Lot(1, 1), Lot(2, 3)>>), HoldingOfBuys("B", <<Lot(1, 4)>>)>> }
\* the prices the quote service may answer with
QuotesFor(symbol) == IF symbol = "AAPL" THEN {274} ELSE {0, 1, 4}

\* the input of the rebalancing analyzers
RebalanceHolding(i, quantity, currentPrice) ==
    [symbol |-> SymbolAt(i), quantity |-> quantity, currentPrice |-> currentPrice,
     totalValue |-> quantity * currentPrice]
RebalanceKinds == { <<1, 0>>, <<1, 1>>, <<2, 1>>, <<3, 1>>, <<1, 2>>, <<2, 2>> }
\* a holding whose symbol is s
Named(s, holding) == [holding EXCEPT !.symbol = s]
\* portfolios of up to MaxRebalanceHoldings holdings, and two whose first
\* symbol is the name of a member of Object.prototype
RebalancePortfolios ==
    { [i \in 1 .. Len(kinds) |-> RebalanceHolding(i, kinds[i][1], kinds[i][2])] :
        kinds \in UNION { [1 .. k -> RebalanceKinds] : k \in 0 .. MaxRebalanceHoldings } }
    \cup { <<Named(s, RebalanceHolding(1, 3, 1)), RebalanceHolding(2, 1, 1)>> :
             s \in {"constructor", "__proto__"} }
TargetAllocations ==
    { NoTargets, [y \in {"A"} |-> 60], [y \in {"A"} |-> 0],
      [y \in {"A", "B"} |-> IF y = "A" THEN 60 ELSE 40],
      [y \in {"A", "B"} |-> 30],
      [y \in {"__proto__", "B"} |-> 50] }

\* the input of the benchmark comparison
BenchmarkInputs ==
    [portfolioValue : {0, 100, 110, 1050}, portfolioCostBasis : {0, 100, 1000},
     timePeriod : {"", "1M", "3M", "6M", "1Y", "YTD", "5Y", "constructor"}]

AdviceInit ==
    /\ LedgerInit
    /\ valTool \in {"advisor", "advisorSimplified", "advisorIndex",
                    "rebalance", "rebalanceEqualWeight", "benchmark"}
    /\ apiKey = TRUE
    /\ valInput \in
         CASE valTool = "advisor" -> StoredInputs
           [] valTool \in {"advisorSimplified", "advisorIndex"} -> PricedInputs
           [] valTool = "rebalance" ->
                [portfolio : RebalancePortfolios, targetAllocation : TargetAllocations]
           [] valTool = "rebalanceEqualWeight" -> [portfolio : RebalancePortfolios]
           [] valTool = "benchmark" -> BenchmarkInputs
    /\ quotes = IF valTool = "advisor" THEN [i \in 1 .. Len(valInput) |-> Pending] ELSE << >>
    /\ completed = << >>
    /\ triggeredAlerts = << >>
    /\ valResult = Running

Done(field, value) == [status |-> "done", holdings |-> << >>] @@ (field :> value)

\* portfolioAdvisorTool (simplified tool set): execute
AdvisorSimplifiedReturns ==
    /\ valTool = "advisorSimplified"
    /\ valResult.status = "running"
    /\ valResult' = Done("advice", AdvisorSimplified(valInput))
    /\ UNCHANGED <<valTool, apiKey, valInput, quotes, completed, triggeredAlerts>>
    /\ UNCHANGED ledgerVars
    /\ UNCHANGED <<memVars, dashVars>>

\* portfolioAdvisorTool (tools/index.ts): execute
AdvisorIndexReturns ==
    /\ valTool = "advisorIndex"
    /\ valResult.status = "running"
    /\ valResult' = Done("advice", AdvisorIndex(valInput))
    /\ UNCHANGED <<valTool, apiKey, valInput, quotes, completed, triggeredAlerts>>
    /\ UNCHANGED ledgerVars
    /\ UNCHANGED <<memVars, dashVars>>

\* rebalancingAnalyzerTool (tools/index.ts): execute
RebalanceReturns ==
    /\ valTool = "rebalance"
    /\ valResult.status = "running"
    /\ valResult' = Done("rebalance", Rebalance(valInput.portfolio, valInput.targetAllocation))
    /\ UNCHANGED <<valTool, apiKey, valInput, quotes, completed, triggeredAlerts>>
    /\ UNCHANGED ledgerVars
    /\ UNCHANGED <<memVars, dashVars>>

\* rebalancingAnalyzerTool (equal weights only): execute
RebalanceEqualWeightReturns ==
    /\ valTool = "rebalanceEqualWeight"
    /\ valResult.status = "running"
    /\ valResult' = Done("rebalance", RebalanceEqualWeight(valInput.portfolio))
    /\ UNCHANGED <<valTool, apiKey, valInput, quotes, completed, triggeredAlerts>>
    /\ UNCHANGED ledgerVars
    /\ UNCHANGED <<memVars, dashVars>>

\* benchmarkComparisonTool: execute
BenchmarkReturns ==
    /\ valTool = "benchmark"
    /\ valResult.status = "running"
    /\ valResult' = Done("benchmark",
                         BenchmarkComparison(valInput.portfolioValue,
                                             valInput.portfolioCostBasis,
                                             valInput.timePeriod))
    /\ UNCHANGED <<valTool, apiKey, valInput, quotes, completed, triggeredAlerts>>
    /\ UNCHANGED ledgerVars
    /\ UNCHANGED <<memVars, dashVars>>

AdviceNext ==
    \/ /\ valTool = "advisor"
       /\ Len(completed) < Len(valInput)
       /\ \E c \in QuotesFor(valInput[Len(completed) + 1].symbol) :
              QuoteReturns(Len(completed) + 1, Outcome("ok", c))
    \/ AdvisorReturns
    \/ AdvisorSimplifiedReturns
    \/ AdvisorIndexReturns
    \/ RebalanceReturns
    \/ RebalanceEqualWeightReturns
    \/ BenchmarkReturns

SpecAdvice == AdviceInit /\ [][AdviceNext]_vars

(***************************************************************************)
(* Properties of the ledger                                                *)
(***************************************************************************)
HoldingOf(pf, symbolUpper) == pf[FindIndex(pf, symbolUpper)]

\* two numbers less than a millionth apart
WithinRounding(a, b) == F64Lt(F64Abs(F64Sub(a, b)), Quotient(1, 1000000))

\* every reordering of a sequence
Reorderings(seq) ==
    { [i \in 1 .. Len(seq) |-> seq[f[i]]] : f \in Permutations(1 .. Len(seq)) }

\* the average cost valuation derives from the purchases list of a holding
\* whose prices are Numbers
AverageCostOf(holding) == AverageCost(PricedLots(holding.purchases))
\* the tenths a decimal price stands for
Tenths(price) == CHOOSE tenths \in 1 .. 3 : Quotient(tenths, 10) = price
\* sum(qty*price)/sum(qty) of lots at decimal prices, computed in tenths
\* without rounding the sums: the Number nearest to the weighted mean
WeightedMean(lots) ==
    Quotient(SumInts([i \in 1 .. Len(lots) |-> lots[i].quantity * Tenths(lots[i].price)]),
             10 * SumQty(lots))

\* C1: after calls made one after the other, the average cost valuation
\* derives from a holding's purchases list is sum(qty*price)/sum(qty) over
\* all the buys of that symbol, and the same for every reordering of those
\* addStock calls.
C1_AverageCostIsWeightedMean ==
    \A s \in Symbols : (overlaps = 0 /\ Held(portfolio, s)) =>
        /\ F64Eq(AverageCostOf(HoldingOf(portfolio, s)), WeightedMean(buys[s]))
        /\ \A r \in Reorderings(buys[s]) :
              F64Eq(AverageCostOf(HoldingOfBuys(s, r)),
                    AverageCostOf(HoldingOf(portfolio, s)))

\* C1 (amended): as C1, up to the rounding of the sums, which depends on
\* the order of the lots: the average cost is within rounding (less than a
\* millionth) of sum(qty*price)/sum(qty), and so is the average cost after
\* every reordering of the addStock calls.
C1_AverageCostWithinRounding ==
    \A s \in Symbols : (overlaps = 0 /\ Held(portfolio, s)) =>
        /\ WithinRounding(AverageCostOf(HoldingOf(portfolio, s)), WeightedMean(buys[s]))
        /\ \A r \in Reorderings(buys[s]) :
              WithinRounding(AverageCostOf(HoldingOfBuys(s, r)), WeightedMean(buys[s]))

\* a holding of three lots bought at unequal prices, whose average cost
\* is another Number when the same lots are bought in another order
C1_Witness ==
    \E s \in Symbols :
        /\ overlaps = 0
        /\ Held(portfolio, s)
        /\ Len(buys[s]) = 3
        /\ buys[s][1].price # buys[s][3].price
        /\ \E r \in Reorderings(buys[s]) :
              ~F64Eq(AverageCostOf(HoldingOfBuys(s, r)),
                     AverageCostOf(HoldingOf(portfolio, s)))

\* the lots left when q units are taken from the front of a lot sequence
RECURSIVE FifoTake(_, _)
FifoTake(lots, q) ==
    IF q <= 0 \/ lots = << >> THEN lots
    ELSE IF Head(lots).quantity <= q
         THEN FifoTake(Tail(lots), q - Head(lots).quantity)
         ELSE <<Lot(Head(lots).quantity - q, Head(lots).price)>> \o Tail(lots)

\* call c of removeStockTool, made with a quantity, is about to store, and
\* the portfolio it read is still the stored one
Removing(c) ==
    /\ At(c, "removeStock", "writing")
    /\ calls[c].args.hasQty
    /\ calls[c].read = portfolio
RemovedSymbol(c) == ToUpperCase(calls[c].args.symbol)
HeldBefore(c) == HoldingOf(portfolio, RemovedSymbol(c)).quantity

\* C3: after removeStock(symbol, q) with 0 < q < held quantity the quantities
\* of the remaining lots sum to the previous quantity minus q; removing the
\* full held quantity removes the holding.
C3_LotsSumAfterRemoval ==
    [][\A c \in 1 .. Len(calls) :
         (Removing(c) /\ RemoveStockWrites(c)) =>
            LET s == RemovedSymbol(c)
                q == calls[c].args.quantity
                held == HeldBefore(c)
            IN  /\ (0 < q /\ q < held) =>
                      /\ Held(portfolio', s)
                      /\ SumQty(HoldingOf(portfolio', s).purchases) = held - q
                /\ (0 < q /\ q = held) => ~Held(portfolio', s)]_vars

\* the cost basis valuation reports for a holding: avgCost * quantity
CostBasis(holding) == F64Mul(AvgCost(holding), FromInt(holding.quantity))

\* C4: a partial removal consumes lots oldest-first: the remaining lots are
\* the original ones with q units taken from the front, at their original
\* prices, and the cost basis reported afterwards is the cost of those lots.
C4_RemovalIsFifo ==
    [][\A c \in 1 .. Len(calls) :
         (/\ Removing(c)
          /\ 0 < calls[c].args.quantity
          /\ calls[c].args.quantity < HeldBefore(c)
          /\ RemoveStockWrites(c)) =>
            LET s == RemovedSymbol(c)
                remaining == FifoTake(HoldingOf(portfolio, s).purchases,
                                      calls[c].args.quantity)
            IN  /\ Held(portfolio', s)
                /\ HoldingOf(portfolio', s).purchases = remaining
                /\ F64Eq(CostBasis(HoldingOf(portfolio', s)),
                         FromInt(SumCost(remaining)))]_vars

\* the quantity of call c of removeStockTool is outside 0 < quantity <=
\* held quantity, for the holding as the call read it
OutOfRange(c) ==
    /\ calls[c].tool = "removeStock"
    /\ calls[c].pc \in {"writing", "returning"}
    /\ calls[c].args.hasQty
    /\ ~(/\ 0 < calls[c].args.quantity
         /\ calls[c].args.quantity <= HoldingOf(calls[c].read, RemovedSymbol(c)).quantity)

\* C5: removeStock with a quantity outside 0 < quantity <= held quantity
\* returns an error result and leaves the portfolio unchanged: its store
\* step, if it has one, changes nothing, and what it returns is no success.
C5_RemoveRejectsBadQuantity ==
    [][\A c \in 1 .. Len(calls) :
         OutOfRange(c) =>
            /\ (Removing(c) /\ RemoveStockWrites(c)) => portfolio' = portfolio
            /\ RemoveStockReturns(c) => lastCall'.success = FALSE]_vars

\* C6: addStock with quantity <= 0 or price <= 0 returns an error result
\* and appends no lot: its store step, if it has one, leaves the portfolio
\* unchanged, and what it returns is no success.
C6_AddRejectsBadLot ==
    [][\A c \in 1 .. Len(calls) :
         (/\ calls[c].tool = "addStock"
          /\ (calls[c].args.quantity <= 0 \/ calls[c].args.price <= 0)) =>
            /\ (calls[c].read = portfolio /\ AddStockWrites(c, MaxLots)) =>
                  portfolio' = portfolio
            /\ AddStockReturns(c) => lastCall'.success = FALSE]_vars

\* C8: with positive quantities and prices every holding present has a
\* non-empty purchases list and a stored quantity greater than 0.
C8_HoldingsNonEmpty ==
    \A i \in 1 .. Len(portfolio) :
        /\ Len(portfolio[i].purchases) > 0
        /\ portfolio[i].quantity > 0

\* a removal has just deleted the only holding, leaving one that was bought
\* later and reduced since
C8_Witness ==
    /\ lastCall = Call("removeStock", TRUE)
    /\ Len(portfolio) = 1
    /\ buys["A"] = << >>
    /\ portfolio[1].quantity < SumQty(portfolio[1].purchases)

(***************************************************************************)
(* Properties of valuation and alert checking                              *)
(***************************************************************************)
\* no quote came back for an item: zero, missing, failed or never fetched
Unavailable(outcome) == ~(outcome.kind = "ok" /\ outcome.c > 0)

Valuing == valTool \in {"advisor", "profit"}

\* C2: when the quote of a holding is zero, missing or its fetch fails, the
\* advisor reports currentPrice equal to the holding's average cost and a
\* profit/loss of exactly 0, and does not throw.
C2_NoQuoteMeansAverageCost ==
    (valTool = "advisor" /\ valResult.status # "running") =>
        /\ valResult.status = "done"
        /\ \A i \in 1 .. Len(valInput) : Unavailable(quotes[i]) =>
              /\ F64Eq(FromInt(valResult.holdings[i].currentPrice), AvgCost(valInput[i]))
              /\ F64Eq(valResult.holdings[i].gainLoss, FromInt(0))

\* the alert of input index i is satisfied by the quote that came back
Satisfied(i) ==
    \/ (valInput[i].condition = "below" /\ quotes[i].c < valInput[i].targetPrice)
    \/ (valInput[i].condition = "above" /\ quotes[i].c > valInput[i].targetPrice)

\* C9: with the quote service configured, a failed or unavailable quote of
\* one item never aborts the batch: the call returns, every item has been
\* processed, every holding is in the result, valued with its own quote
\* when it has one, and every alert whose own quote satisfies it is reported.
C9_FailedQuoteDoesNotAbort ==
    (apiKey /\ valResult.status # "running") =>
        /\ valResult.status = "done"
        /\ Len(completed) = Len(valInput)
        /\ Valuing =>
              /\ Len(valResult.holdings) = Len(valInput)
              /\ \A i \in 1 .. Len(valInput) :
                    \E j \in 1 .. Len(valResult.holdings) :
                        /\ valResult.holdings[j].symbol = valInput[i].symbol
                        /\ valResult.holdings[j].quantity = valInput[i].quantity
                        /\ ~Unavailable(quotes[i]) =>
                              valResult.holdings[j].currentPrice = quotes[i].c
        /\ valTool = "alerts" =>
              \A i \in 1 .. Len(valInput) :
                  (~Unavailable(quotes[i]) /\ Satisfied(i)) =>
                      \E k \in 1 .. Len(triggeredAlerts) :
                          triggeredAlerts[k] = [symbol |-> valInput[i].symbol,
                                                currentPrice |-> quotes[i].c,
                                                targetPrice |-> valInput[i].targetPrice,
                                                condition |-> valInput[i].condition]

\* the advisor has returned: the first holding's fetch failed after the
\* second one's had come back with a quote, and the second is valued at it
C9_Witness ==
    /\ valTool = "advisor"
    /\ valResult.status = "done"
    /\ Len(valInput) = 2
    /\ completed = <<2, 1>>
    /\ quotes[1].kind = "fail"
    /\ quotes[2] = Outcome("ok", 4)
    /\ valResult.holdings[2].currentPrice = 4
    /\ valResult.holdings[1].currentPrice = valInput[1].purchasePrice

\* C10: the holdings a valuation call returns are in the order of the input
\* portfolio, whatever order the fetches completed in and whatever the
\* profit/loss values are.
C10_HoldingsInInputOrder ==
    (Valuing /\ valResult.status = "done") =>
        /\ Len(valResult.holdings) = Len(valInput)
        /\ \A i \in 1 .. Len(valInput) :
              valResult.holdings[i].symbol = valInput[i].symbol

(***************************************************************************)
(* Properties of the analysis tools                                        *)
(***************************************************************************)
AdvisorTools == {"advisor", "advisorSimplified", "advisorIndex"}
Advised == valTool \in AdvisorTools /\ valResult.status = "done"
Rebalanced == valTool \in {"rebalance", "rebalanceEqualWeight"} /\ valResult.status = "done"
Compared == valTool = "benchmark" /\ valResult.status = "done"

\* C11: every percentage a result carries is a finite number; the advisor's
\* total gain percent is 0 when the total cost is 0, and the benchmark
\* comparison's portfolio return is 0 when the cost basis is 0.
C11_PercentagesFinite ==
    /\ (valTool = "advisor" /\ valResult.status = "done") =>
          /\ IsFinite(valResult.advice.totalGainPercent)
          /\ F64Eq(valResult.advice.totalCost, FromInt(0)) =>
                 F64Eq(valResult.advice.totalGainPercent, FromInt(0))
          /\ \A i \in 1 .. Len(valResult.holdings) :
                 IsFinite(valResult.holdings[i].gainLossPercent)
    /\ Compared =>
          /\ IsFinite(valResult.benchmark.portfolioReturn)
          /\ IsFinite(valResult.benchmark.outperformance)
          /\ valInput.portfolioCostBasis = 0 =>
                 F64Eq(valResult.benchmark.portfolioReturn, FromInt(0))

\* the quote of holding i came back with a price
Quoted(i) == quotes[i].kind = "ok" /\ quotes[i].c > 0

\* C12: for holdings built by addStock calls, the fetching advisor reports,
\* for every holding with a quote, a cost of the sum of quantity * price over
\* its buys, a value of quote * quantity and a gain of value - cost; the
\* portfolio's totals are the sums over its holdings, the total gain is the
\* sum of the holdings' gains; buys (10 at 271), (5 at 273) quoted at 274
\* give cost 4075, value 4110 and gain 35.
C12_ValuationTotals ==
    (valTool = "advisor" /\ valResult.status = "done") =>
        LET held == valResult.holdings
            advice == valResult.advice
            n == Len(valInput)
        IN  /\ \A i \in 1 .. n : Quoted(i) =>
                  /\ F64Eq(F64Mul(held[i].avgCost, FromInt(held[i].quantity)),
                           FromInt(SumCost(valInput[i].purchases)))
                  /\ F64Eq(held[i].totalValue,
                           FromInt(quotes[i].c * SumQty(valInput[i].purchases)))
                  /\ F64Eq(held[i].gainLoss,
                           F64Sub(held[i].totalValue,
                                  FromInt(SumCost(valInput[i].purchases))))
            /\ F64Eq(advice.totalValue, SumNumbers([i \in 1 .. n |-> held[i].totalValue]))
            /\ F64Eq(advice.totalCost,
                     FromInt(SumInts([i \in 1 .. n |-> SumCost(valInput[i].purchases)])))
            /\ F64Eq(advice.totalGain, SumNumbers([i \in 1 .. n |-> held[i].gainLoss]))
            /\ valInput = <<Aapl>> =>
                  /\ F64Eq(advice.totalCost, FromInt(4075))
                  /\ F64Eq(advice.totalValue, FromInt(4110))
                  /\ F64Eq(advice.totalGain, FromInt(35))
                  /\ F64Eq(held[1].gainLoss, FromInt(35))
\* C12 (amended): as C12, with the costs and gains, which the advisor
\* computes from the rounded average cost, within rounding (less than a
\* millionth) of the exact sums: buys (10 at 271), (5 at 273) quoted at 274
\* give a cost within rounding of 4075, value 4110 and a gain within
\* rounding of 35.
C12_ValuationTotalsWithinRounding ==
    (valTool = "advisor" /\ valResult.status = "done") =>
        LET held == valResult.holdings
            advice == valResult.advice
            n == Len(valInput)
        IN  /\ \A i \in 1 .. n : Quoted(i) =>
                  /\ WithinRounding(F64Mul(held[i].avgCost, FromInt(held[i].quantity)),
                                    FromInt(SumCost(valInput[i].purchases)))
                  /\ F64Eq(held[i].totalValue,
                           FromInt(quotes[i].c * SumQty(valInput[i].purchases)))
                  /\ WithinRounding(held[i].gainLoss,
                         F64Sub(held[i].totalValue,
                                FromInt(SumCost(valInput[i].purchases))))
            /\ F64Eq(advice.totalValue, SumNumbers([i \in 1 .. n |-> held[i].totalValue]))
            /\ WithinRounding(advice.totalCost,
                   FromInt(SumInts([i \in 1 .. n |-> SumCost(valInput[i].purchases)])))
            /\ WithinRounding(advice.totalGain,
                   SumNumbers([i \in 1 .. n |-> held[i].gainLoss]))
            /\ valInput = <<Aapl>> =>
                  /\ WithinRounding(advice.totalCost, FromInt(4075))
                  /\ F64Eq(advice.totalValue, FromInt(4110))
                  /\ WithinRounding(advice.totalGain, FromInt(35))
                  /\ WithinRounding(held[1].gainLoss, FromInt(35))
C12_Witness ==
    /\ valTool = "advisor"
    /\ valResult.status = "done"
    /\ valInput = <<Aapl>>
    /\ Quoted(1)
    /\ F64Eq(valResult.holdings[1].totalValue, FromInt(4110))

\* the smaller of two integers
Min(a, b) == IF a < b THEN a ELSE b
\* one more position, as each advisor receives it
OneMore == HoldingOfBuys("Z", <<Lot(1, 1)>>)
\* the advisor's advice for its input with one more position
AdviceWithOneMore ==
    CASE valTool = "advisor" ->
           AdvisorAnalysis(Append(valResult.holdings, AdvisorEntry(OneMore, Outcome("ok", 1))))
      [] valTool = "advisorSimplified" ->
           AdvisorSimplified(Append(valInput, [symbol |-> "Z", quantity |-> 1,
                                               purchasePrice |-> 1, currentPrice |-> 1]))
      [] valTool = "advisorIndex" ->
           AdvisorIndex(Append(valInput, [symbol |-> "Z", quantity |-> 1,
                                          purchasePrice |-> 1, currentPrice |-> 1]))

\* C13: every advisor returns diversificationScore = min(20 * number of
\* holdings, 100); the score of the portfolio with one more holding is not
\* lower, and the score is 100 from 5 holdings on.
C13_DiversificationScore ==
    Advised =>
        /\ valResult.advice.diversificationScore = Min(20 * Len(valInput), 100)
        /\ AdviceWithOneMore.diversificationScore >= valResult.advice.diversificationScore
        /\ Len(valInput) >= 5 => valResult.advice.diversificationScore = 100
C13_Witness ==
    /\ Advised
    /\ Len(valInput) > 5
    /\ valResult.advice.diversificationScore = 100
    /\ AdviceWithOneMore.diversificationScore = 100

\* the value an advisor gives position i, and each position's share of the
\* portfolio's value in percent
PositionValue(i) ==
    CASE valTool = "advisor" ->
           valResult.holdings[i].currentPrice * valResult.holdings[i].quantity
      [] valTool = "advisorSimplified" ->
           (IF valInput[i].currentPrice # 0 THEN valInput[i].currentPrice
            ELSE valInput[i].purchasePrice) * valInput[i].quantity
      [] valTool = "advisorIndex" -> valInput[i].currentPrice * valInput[i].quantity
PortfolioValue == SumInts([i \in 1 .. Len(valInput) |-> PositionValue(i)])
Shares == [i \in 1 .. Len(valInput) |->
              Share(FromInt(PositionValue(i)), FromInt(PortfolioValue))]
\* a share that no other share exceeds
IsLargestShare(x) ==
    /\ \E i \in 1 .. Len(valInput) : F64Eq(Shares[i], x)
    /\ \A i \in 1 .. Len(valInput) : ~F64Lt(x, Shares[i])

\* C14: every advisor's risk score is min(2 * maxConcentration, 100), where
\* maxConcentration is the largest share of a holding in the portfolio's
\* value, in percent; a portfolio of one holding gets diversificationScore
\* 20, riskScore 100 and the rating NEEDS IMPROVEMENT.
C14_RiskFromConcentration ==
    Advised =>
        /\ Len(valInput) > 0 =>
              \E x \in { Shares[i] : i \in 1 .. Len(valInput) } :
                  /\ IsLargestShare(x)
                  /\ F64Eq(valResult.advice.riskScoreUnrounded,
                           IF F64Lt(F64Mul(x, FromInt(2)), FromInt(100))
                           THEN F64Mul(x, FromInt(2)) ELSE FromInt(100))
        /\ Len(valInput) = 1 =>
              /\ valResult.advice.diversificationScore = 20
              /\ F64Eq(valResult.advice.riskScore, FromInt(100))
              /\ valResult.advice.overallRating = "NEEDS IMPROVEMENT"

\* C15: the rating is EXCELLENT iff diversificationScore > 70 and riskScore
\* < 50; if not, GOOD iff diversificationScore > 50 and riskScore < 70; if
\* not, NEEDS IMPROVEMENT; the scores compared are the ones before rounding.
C15_RatingTiers ==
    Advised =>
        LET rating == valResult.advice.overallRating
            diversification == Min(20 * Len(valInput), 100)
            risk == valResult.advice.riskScoreUnrounded
            excellent == diversification > 70 /\ F64Lt(risk, FromInt(50))
            good == (~excellent) /\ diversification > 50 /\ F64Lt(risk, FromInt(70))
        IN  /\ rating = "EXCELLENT" <=> excellent
            /\ rating = "GOOD" <=> good
            /\ rating = "NEEDS IMPROVEMENT" <=> ~(excellent \/ good)
\* a risk score of 69.6 is returned as 70 and rated as below 70
C15_Witness ==
    /\ Advised
    /\ F64Eq(valResult.advice.riskScore, FromInt(70))
    /\ F64Lt(valResult.advice.riskScoreUnrounded, FromInt(70))
    /\ valResult.advice.overallRating = "GOOD"

\* how many findings of a list were pushed by a rule
Count(findings, rule) == Cardinality({ i \in 1 .. Len(findings) : findings[i].rule = rule })
\* the findings of the concentration rule, wherever the advisor puts them
ConcentrationFindings ==
    Count(valResult.advice.weaknesses, "concentration")
    + Count(valResult.advice.recommendations, "reduce-concentration")
    + Count(valResult.advice.actionItems, "reduce-concentration")

\* C16: when the portfolio's value is 0 (no holding, or every position
\* valued at 0) the advisors that score risk by concentration have
\* maxConcentration 0 and riskScore 0, and emit no finding of the
\* concentration rule.
C16_ZeroValueMeansZeroConcentration ==
    (Advised /\ valTool \in {"advisor", "advisorSimplified"} /\ PortfolioValue = 0) =>
        /\ F64Eq(valResult.advice.maxConcentration, FromInt(0))
        /\ F64Eq(valResult.advice.riskScore, FromInt(0))
        /\ ConcentrationFindings = 0

\* the first finding of a rule in a list; 0 if there is none
FirstOf(findings, rule) ==
    IF Count(findings, rule) = 0 THEN 0
    ELSE CHOOSE i \in 1 .. Len(findings) :
             /\ findings[i].rule = rule
             /\ \A j \in 1 .. (i - 1) : findings[j].rule # rule
\* the list an advisor puts its actions in
Actions == IF valTool = "advisor" THEN valResult.advice.recommendations
           ELSE valResult.advice.actionItems

\* C17: the findings follow from the number of holdings and the largest
\* share: the insufficient-diversification weakness and the add-holdings
\* action appear iff there are fewer than 3 holdings, the well-diversified
\* strength iff there are 5 or more, the concentration weakness and the
\* reduce action appear once each iff the largest share is above 40 (and not
\* at all otherwise), and a diversification finding comes before a
\* concentration finding in the same list.
C17_FindingsFollowRules ==
    Advised =>
        LET advice == valResult.advice
            concentrated == \E i \in 1 .. Len(valInput) : F64Lt(FromInt(40), Shares[i])
        IN  /\ Count(advice.weaknesses, "insufficient-diversification")
                 = (IF Len(valInput) < 3 THEN 1 ELSE 0)
            /\ Count(Actions, "add-holdings") = (IF Len(valInput) < 3 THEN 1 ELSE 0)
            /\ Count(advice.strengths, "well-diversified")
                 = (IF Len(valInput) >= 5 THEN 1 ELSE 0)
            /\ Count(advice.weaknesses, "concentration") = (IF concentrated THEN 1 ELSE 0)
            /\ Count(Actions, "reduce-concentration") = (IF concentrated THEN 1 ELSE 0)
            /\ (Len(valInput) < 3 /\ concentrated) =>
                  /\ FirstOf(advice.weaknesses, "insufficient-diversification")
                       < FirstOf(advice.weaknesses, "concentration")
                  /\ FirstOf(Actions, "add-holdings")
                       < FirstOf(Actions, "reduce-concentration")

(***************************************************************************)
(* Properties of the rebalancing analyzers                                 *)
(***************************************************************************)
\* the analyzed portfolio, the target of holding i, its share and its
\* deviation from the target, in percent
Analyzed == valInput.portfolio
AnalyzedValue == SumInts([i \in 1 .. Len(Analyzed) |-> Analyzed[i].totalValue])
\* whether a value is a Number
IsANumber(v) == v.k \in {"num", "inf", "nan"}
\* the target of holding i: the one the analyzer takes, which is the equal
\* weight where the symbol has no entry, also where the analyzer finds a
\* value there that is no Number
AnalyzerTargetAt(i) ==
    IF valTool = "rebalance"
    THEN TargetOf(Analyzed, valInput.targetAllocation, Analyzed[i].symbol)
    ELSE EqualWeight(Analyzed)
TargetAt(i) ==
    IF IsANumber(AnalyzerTargetAt(i)) THEN AnalyzerTargetAt(i) ELSE EqualWeight(Analyzed)
ShareAt(i) == Share(FromInt(Analyzed[i].totalValue), FromInt(AnalyzedValue))
DeviationAt(i) == F64Abs(F64Sub(ShareAt(i), TargetAt(i)))
\* the holdings more than 10 points off their target, in portfolio order
OffTarget ==
    SelectSeq([i \in 1 .. Len(Analyzed) |-> i], LAMBDA i : F64Lt(FromInt(10), DeviationAt(i)))

\* C18: isBalanced is true iff every holding's |current% - target%| is
\* below 10; there is one suggestion for each holding whose deviation is
\* above 10 and for no other, in portfolio order, REDUCE when current% >
\* target% and INCREASE otherwise; a single holding at equal weight is
\* balanced, with no suggestion.
C18_BalancedAndSuggestions ==
    Rebalanced =>
        LET result == valResult.rebalance
        IN  /\ result.isBalanced <=>
                  \A i \in 1 .. Len(Analyzed) : F64Lt(DeviationAt(i), FromInt(10))
            /\ Len(result.suggestions) = Len(OffTarget)
            /\ \A k \in 1 .. Len(OffTarget) :
                  /\ result.suggestions[k].symbol = Analyzed[OffTarget[k]].symbol
                  /\ result.suggestions[k].action =
                        (IF F64Lt(TargetAt(OffTarget[k]), ShareAt(OffTarget[k]))
                         THEN "REDUCE" ELSE "INCREASE")
            /\ (Len(Analyzed) = 1 /\ F64Eq(TargetAt(1), FromInt(100))) =>
                  result.isBalanced /\ result.suggestions = << >>

\* the shares a list of suggestions adds to a symbol's holding (sold shares
\* count negative)
RECURSIVE SharesDelta(_, _)
SharesDelta(suggestions, symbol) ==
    IF suggestions = << >> THEN 0
    ELSE (IF Head(suggestions).symbol # symbol THEN 0
          ELSE IF Head(suggestions).action = "REDUCE" THEN -IntOf(Head(suggestions).shares)
          ELSE IntOf(Head(suggestions).shares))
         + SharesDelta(Tail(suggestions), symbol)
\* the portfolio after trading every suggestion at the holding's currentPrice
Applied(pf, suggestions) ==
    [i \in 1 .. Len(pf) |->
        LET quantity == pf[i].quantity + SharesDelta(suggestions, pf[i].symbol)
        IN  [pf[i] EXCEPT !.quantity = quantity,
                          !.totalValue = quantity * pf[i].currentPrice]]
PositivePrices == \A i \in 1 .. Len(Analyzed) : Analyzed[i].currentPrice > 0
\* the analyzer's result for the traded portfolio, with the same targets
AfterTrades ==
    LET traded == Applied(Analyzed, valResult.rebalance.suggestions)
    IN  IF valTool = "rebalance" THEN Rebalance(traded, valInput.targetAllocation)
        ELSE RebalanceEqualWeight(traded)

\* C19: with positive prices, trading all the suggestions and analyzing
\* again gives a maxDeviation strictly smaller than before, or 0 when it
\* was 0.
C19_TradesReduceDeviation ==
    (Rebalanced /\ PositivePrices) =>
        \/ F64Lt(AfterTrades.maxDeviation, valResult.rebalance.maxDeviation)
        \/ /\ F64Eq(valResult.rebalance.maxDeviation, FromInt(0))
           /\ F64Eq(AfterTrades.maxDeviation, FromInt(0))

\* the holding a suggestion is for, its target value and the value it has
\* after the suggested trade
HoldingFor(suggestion) ==
    CHOOSE i \in 1 .. Len(Analyzed) : Analyzed[i].symbol = suggestion.symbol
TargetValue(i) == F64Div(F64Mul(FromInt(AnalyzedValue), TargetAt(i)), FromInt(100))
ValueAfter(suggestion) ==
    LET holding == Analyzed[HoldingFor(suggestion)]
        traded == F64Mul(suggestion.shares, FromInt(holding.currentPrice))
    IN  IF suggestion.action = "REDUCE" THEN F64Sub(FromInt(holding.totalValue), traded)
        ELSE F64Add(FromInt(holding.totalValue), traded)

\* C20: every suggested share count is a whole number, 0 or more; selling
\* the shares of a REDUCE suggestion at currentPrice leaves the holding's
\* value at or above its target value (total value * target% / 100), and
\* buying the shares of an INCREASE suggestion brings it to at least its
\* target value.
C20_WholeSharesNoOvershoot ==
    Rebalanced =>
        \A k \in 1 .. Len(valResult.rebalance.suggestions) :
            LET suggestion == valResult.rebalance.suggestions[k]
            IN  /\ IsFinite(suggestion.shares)
                /\ IsInteger(suggestion.shares)
                /\ ~F64Lt(suggestion.shares, FromInt(0))
                /\ ~F64Lt(ValueAfter(suggestion), TargetValue(HoldingFor(suggestion)))

\* the target the mapping names for holding i: its entry when it has one,
\* whatever the entry's value, and equal weight when it has none
MappedTargetAt(i) ==
    IF Analyzed[i].symbol \in DOMAIN valInput.targetAllocation
    THEN FromInt(valInput.targetAllocation[Analyzed[i].symbol])
    ELSE EqualWeight(Analyzed)

\* C21: with a target allocation, the analyzer compares every holding whose
\* symbol has an entry against that entry's percent, 0 included, and the
\* other holdings against 100 / N: its verdict and its suggestions are the
\* ones these targets give.
C21_MappedTargetsUsed ==
    (Rebalanced /\ valTool = "rebalance") =>
        LET expected == RebalanceResult(Analyzed,
                            [i \in 1 .. Len(Analyzed) |-> MappedTargetAt(i)])
        IN  /\ valResult.rebalance.isBalanced = expected.isBalanced
            /\ valResult.rebalance.suggestions = expected.suggestions

(***************************************************************************)
(* Properties of the alert checker                                         *)
(***************************************************************************)
\* alert i has a quote with a price, and the price strictly meets its condition
AlertQuoted(i) == quotes[i].kind = "ok" /\ quotes[i].c > 0
AlertMet(i) ==
    \/ valInput[i].condition = "below" /\ quotes[i].c < valInput[i].targetPrice
    \/ valInput[i].condition = "above" /\ quotes[i].c > valInput[i].targetPrice
\* the alerts that are to trigger, in input order
DueAlerts ==
    SelectSeq([i \in 1 .. Len(valInput) |-> i], LAMBDA i : AlertQuoted(i) /\ AlertMet(i))

\* C22: the alert checker returns, in input order, exactly the alerts whose
\* quote has a price above 0 that is strictly below (condition below) or
\* strictly above (condition above) the target; a price equal to the target
\* triggers nothing, and neither does an alert without a quote.
C22_TriggeredAlertsAreDueAlerts ==
    (valTool = "alerts" /\ valResult.status = "done") =>
        /\ Len(triggeredAlerts) = Len(DueAlerts)
        /\ \A k \in 1 .. Len(DueAlerts) :
              /\ triggeredAlerts[k].symbol = valInput[DueAlerts[k]].symbol
              /\ triggeredAlerts[k].condition = valInput[DueAlerts[k]].condition
              /\ triggeredAlerts[k].targetPrice = valInput[DueAlerts[k]].targetPrice
              /\ triggeredAlerts[k].currentPrice = quotes[DueAlerts[k]].c
\* two alerts, the first at its target exactly and the second past it: only
\* the second is returned
C22_Witness ==
    /\ valTool = "alerts"
    /\ valResult.status = "done"
    /\ Len(valInput) = 2
    /\ AlertQuoted(1)
    /\ quotes[1].c = valInput[1].targetPrice
    /\ AlertQuoted(2)
    /\ AlertMet(2)
    /\ Len(triggeredAlerts) = 1
    /\ triggeredAlerts[1].symbol = valInput[2].symbol

(***************************************************************************)
(* Properties of the benchmark comparison                                  *)
(***************************************************************************)
\* the reference return of a period token, in tenths of a percent
ReferenceTenths(token) ==
    CASE token = "1M" -> 21
      [] token = "3M" -> 55
      [] token = "6M" -> 82
      [] token = "YTD" -> 123
      [] OTHER -> 105

\* C23: the reference return is the table's entry for the period token (1M
\* 2.1, 3M 5.5, 6M 8.2, 1Y 10.5, YTD 12.3) and the 1Y entry, 10.5, for a
\* missing or unknown token; outperformance is portfolioReturn minus the
\* reference return; value 1050 on cost 1000 over 1Y gives return 5,
\* reference 10.5 and outperformance -5.5.
C23_BenchmarkTable ==
    Compared =>
        LET result == valResult.benchmark
        IN  /\ IsANumber(result.sp500Return)
            /\ F64Eq(result.sp500Return, Quotient(ReferenceTenths(valInput.timePeriod), 10))
            /\ IF IsFinite(result.portfolioReturn)
               THEN F64Eq(result.outperformance,
                          F64Sub(result.portfolioReturn, result.sp500Return))
               ELSE /\ ~IsFinite(result.outperformance)
                    /\ F64IsNaN(result.outperformance) = F64IsNaN(result.portfolioReturn)
            /\ (valInput.portfolioValue = 1050 /\ valInput.portfolioCostBasis = 1000
                  /\ valInput.timePeriod = "1Y") =>
                  /\ F64Eq(result.portfolioReturn, FromInt(5))
                  /\ F64Eq(result.outperformance, Quotient(-55, 10))
(***************************************************************************)
(* Further properties of the advisors and the rebalancing analyzers        *)
(***************************************************************************)
\* C28: an advisor rates a portfolio EXCELLENT only if it has 5 holdings
\* or more and every position is under 25% of its value, and GOOD only if
\* it has 3 holdings or more and every position is under 35%.
C28_RatingNeedsSpread ==
    Advised =>
        /\ valResult.advice.overallRating = "EXCELLENT" =>
              /\ Len(valInput) >= 5
              /\ \A i \in 1 .. Len(valInput) : F64Lt(Shares[i], FromInt(25))
        /\ valResult.advice.overallRating = "GOOD" =>
              /\ Len(valInput) >= 3
              /\ \A i \in 1 .. Len(valInput) : F64Lt(Shares[i], FromInt(35))
\* C29 as stated: a result with isBalanced false has a suggestion, and a
\* result with isBalanced true has none.
C29_UnbalancedMeansSuggestion ==
    Rebalanced =>
        /\ ~valResult.rebalance.isBalanced => valResult.rebalance.suggestions # << >>
        /\ valResult.rebalance.isBalanced => valResult.rebalance.suggestions = << >>

\* C29 amended: a result with isBalanced true has no suggestion; a result
\* with isBalanced false has a suggestion unless the largest deviation is
\* exactly 10 points, and then it has none.
C29_UnbalancedMeansSuggestionBeyond10 ==
    Rebalanced =>
        LET result == valResult.rebalance
        IN  /\ result.isBalanced => result.suggestions = << >>
            /\ ~result.isBalanced =>
                  IF F64Eq(result.maxDeviation, FromInt(10))
                  THEN result.suggestions = << >>
                  ELSE result.suggestions # << >>
\* shares of 60 and 40 against 50: not balanced, nothing suggested
C29_Witness ==
    /\ Rebalanced
    /\ ~valResult.rebalance.isBalanced
    /\ F64Eq(valResult.rebalance.maxDeviation, FromInt(10))
    /\ valResult.rebalance.suggestions = << >>
    /\ Len(Analyzed) = 2

(***************************************************************************)
(* A buy undone by a sale of the same quantity                             *)
(***************************************************************************)
\* C26: from any portfolio, addStock(s, q, p) followed by removeStock(s, q),
\* with q > 0, gives back the portfolio there was before: the same holdings
\* with the same quantities, purchase prices and purchases lists, whether
\* or not s was held.
C26_BuyThenSellRestores ==
    \A s \in Symbols, q \in PosQty, p \in PosPrice :
        RemoveStockFn(AddStockFn(portfolio, s, q, p), s, TRUE, q) = portfolio

\* a call of addStock or removeStock returns success = false in this step:
\* the result is new, or a call in flight has left
FailingReturn ==
    /\ lastCall'.tool \in {"addStock", "removeStock"}
    /\ ~lastCall'.success
    /\ (lastCall' # lastCall \/ Len(calls') < Len(calls))

\* C27: a call of addStock or removeStock that returns success = false has
\* performed no write to working memory: it returns before it was in flight
\* (no working memory) or from its read, never from behind its
\* updateWorkingMemory, and the step in which it returns leaves the stored
\* portfolio as it is.  What another call in flight stores meanwhile is
\* that call's write.
C27_FailureWritesNothing ==
    [][FailingReturn =>
          /\ portfolio' = portfolio
          /\ \/ calls' = calls
             \/ \E c \in 1 .. Len(calls) :
                   calls[c].pc = "reading" /\ calls' = Without(calls, c)]_vars
\* removeStock of a symbol that is not held has been refused on a portfolio
\* that holds another symbol, while an addStock call that has stored its
\* portfolio has not returned yet
C27_Witness ==
    /\ lastCall = Call("removeStock", FALSE)
    /\ portfolio # << >>
    /\ \E s \in Symbols : ~Held(portfolio, s)
    /\ \E c \in 1 .. Len(calls) : At(c, "addStock", "returning")


(***************************************************************************)
(* The tools that keep the other lists of working memory: addAlertTool,    *)
(* addExpenseTool, addSubscriptionTool.  Each field of working memory is a *)
(* variable; updateWorkingMemory(runId, {field: value}) stores value in    *)
(* the field it names and passes no other field.                           *)
(***************************************************************************)
\* addAlertTool.execute: [...alerts, newAlert]
AddAlertFn(list, symbol, condition, targetPrice) ==
    Append(list, [symbol |-> ToUpperCase(symbol), condition |-> condition,
                  targetPrice |-> targetPrice])

\* addExpenseTool.execute: [...expenses, newExpense]; date is what
\* new Date().toISOString() gave
AddExpenseFn(list, amount, category, description, date) ==
    Append(list, [amount |-> amount, category |-> category,
                  description |-> description, date |-> date])

\* addSubscriptionTool.execute: [...bills, newBill]
AddSubscriptionFn(list, name, amount, dueDay) ==
    Append(list, [name |-> name, amount |-> amount, dueDay |-> dueDay])

\* the records kept in the three lists together
NumRecords(a, e, b) == Len(a) + Len(e) + Len(b)

\* the clock readings of new Date().toISOString()
Dates == {"2025-01-01T00:00:00.000Z", "2025-01-02T00:00:00.000Z"}
AlertInputs == { <<"a", "above", 3>>, <<"B", "below", 1>> }
ExpenseInputs == { <<3, "food", "lunch">>, <<1, "travel", "bus">> }
SubscriptionInputs == { <<"netflix", 3, 1>>, <<"gym", 1, 31>> }

\* the agent calls addAlertTool
AddAlertStarts(symbol, condition, targetPrice) ==
    Starts("addAlert", [symbol |-> symbol, condition |-> condition,
                        targetPrice |-> targetPrice])

\* getWorkingMemory answers call c of addAlertTool: memory?.alerts || []
AddAlertReads(c) ==
    /\ At(c, "addAlert", "reading")
    /\ calls' = [calls EXCEPT ![c].pc = "writing", ![c].read = alerts]
    /\ UNCHANGED <<portfolio, buys, lastCall, alerts, expenses, billReminders, overlaps>>
    /\ UNCHANGED <<valVars, dashVars>>

\* updateWorkingMemory stores [...alerts, newAlert] of call c
AddAlertWrites(c) ==
    /\ At(c, "addAlert", "writing")
    /\ LET args == calls[c].args
           updated == AddAlertFn(calls[c].read, args.symbol, args.condition,
                                 args.targetPrice)
       IN  /\ NumRecords(updated, expenses, billReminders) <= MaxRecords
           /\ alerts' = updated
    /\ calls' = [calls EXCEPT ![c].pc = "returning"]
    /\ UNCHANGED <<lastCall, portfolio, buys, expenses, billReminders, overlaps>>
    /\ UNCHANGED <<valVars, dashVars>>

\* addAlertTool returns
AddAlertReturns(c) == Returns(c, "addAlert")

\* the agent calls addExpenseTool; the date is not read yet
AddExpenseStarts(amount, category, description) ==
    Starts("addExpense", [amount |-> amount, category |-> category,
                          description |-> description, date |-> ""])

\* getWorkingMemory answers call c of addExpenseTool: memory?.expenses || [],
\* and newExpense is built with the date of that moment
AddExpenseReads(c) ==
    /\ At(c, "addExpense", "reading")
    /\ \E date \in Dates :
          calls' = [calls EXCEPT ![c].pc = "writing", ![c].read = expenses,
                                 ![c].args.date = date]
    /\ UNCHANGED <<portfolio, buys, lastCall, alerts, expenses, billReminders, overlaps>>
    /\ UNCHANGED <<valVars, dashVars>>

\* updateWorkingMemory stores [...expenses, newExpense] of call c
AddExpenseWrites(c) ==
    /\ At(c, "addExpense", "writing")
    /\ LET args == calls[c].args
           updated == AddExpenseFn(calls[c].read, args.amount, args.category,
                                   args.description, args.date)
       IN  /\ NumRecords(alerts, updated, billReminders) <= MaxRecords
           /\ expenses' = updated
    /\ calls' = [calls EXCEPT ![c].pc = "returning"]
    /\ UNCHANGED <<lastCall, portfolio, buys, alerts, billReminders, overlaps>>
    /\ UNCHANGED <<valVars, dashVars>>

\* addExpenseTool returns
AddExpenseReturns(c) == Returns(c, "addExpense")

\* the agent calls addSubscriptionTool
AddSubscriptionStarts(name, amount, dueDay) ==
    Starts("addSubscription", [name |-> name, amount |-> amount, dueDay |-> dueDay])

\* getWorkingMemory answers call c of addSubscriptionTool:
\* memory?.billReminders || []
AddSubscriptionReads(c) ==
    /\ At(c, "addSubscription", "reading")
    /\ calls' = [calls EXCEPT ![c].pc = "writing", ![c].read = billReminders]
    /\ UNCHANGED <<portfolio, buys, lastCall, alerts, expenses, billReminders, overlaps>>
    /\ UNCHANGED <<valVars, dashVars>>

\* updateWorkingMemory stores [...bills, newBill] of call c
AddSubscriptionWrites(c) ==
    /\ At(c, "addSubscription", "writing")
    /\ LET args == calls[c].args
           updated == AddSubscriptionFn(calls[c].read, args.name, args.amount,
                                        args.dueDay)
       IN  /\ NumRecords(alerts, expenses, updated) <= MaxRecords
           /\ billReminders' = updated
    /\ calls' = [calls EXCEPT ![c].pc = "returning"]
    /\ UNCHANGED <<lastCall, portfolio, buys, alerts, expenses, overlaps>>
    /\ UNCHANGED <<valVars, dashVars>>

\* addSubscriptionTool returns
AddSubscriptionReturns(c) == Returns(c, "addSubscription")

MemoryTools == {"addStock", "addAlert", "addExpense", "addSubscription"}

\* the agent's memory tools: the list tools, and addStockTool to fill the
\* portfolio
MemoryNext ==
    \/ \E in \in AlertInputs : AddAlertStarts(in[1], in[2], in[3])
    \/ \E in \in ExpenseInputs : AddExpenseStarts(in[1], in[2], in[3])
    \/ \E in \in SubscriptionInputs : AddSubscriptionStarts(in[1], in[2], in[3])
    \/ \E s \in InSymbols : AddStockStarts(s, 1, 1)
    \/ \E t \in MemoryTools : NoMemory(t)
    \/ \E c \in 1 .. Len(calls) : AddAlertReads(c)
    \/ \E c \in 1 .. Len(calls) : AddAlertWrites(c)
    \/ \E c \in 1 .. Len(calls) : AddAlertReturns(c)
    \/ \E c \in 1 .. Len(calls) : AddExpenseReads(c)
    \/ \E c \in 1 .. Len(calls) : AddExpenseWrites(c)
    \/ \E c \in 1 .. Len(calls) : AddExpenseReturns(c)
    \/ \E c \in 1 .. Len(calls) : AddSubscriptionReads(c)
    \/ \E c \in 1 .. Len(calls) : AddSubscriptionWrites(c)
    \/ \E c \in 1 .. Len(calls) : AddSubscriptionReturns(c)
    \/ \E c \in 1 .. Len(calls) : AddStockReads(c)
    \/ \E c \in 1 .. Len(calls) : AddStockWrites(c, MaxMemoryLots)
    \/ \E c \in 1 .. Len(calls) : AddStockReturns(c)

SpecMemory == Init /\ [][MemoryNext]_vars

\* a list grown by one record at its end
GrownByOne(before, after) ==
    /\ Len(after) = Len(before) + 1
    /\ SubSeq(after, 1, Len(before)) = before

\* C25: a call of addAlert, addExpense or addSubscription changes working
\* memory only by one record appended at the end of its own list (alerts,
\* expenses, billReminders): the entries there were are kept in order, and
\* the portfolio and the other lists are unchanged.
C25_AppendsToOwnListOnly ==
    [][/\ \A c \in 1 .. Len(calls) :
             /\ AddAlertWrites(c) =>
                   /\ UNCHANGED <<portfolio, expenses, billReminders>>
                   /\ GrownByOne(alerts, alerts')
             /\ AddExpenseWrites(c) =>
                   /\ UNCHANGED <<portfolio, alerts, billReminders>>
                   /\ GrownByOne(expenses, expenses')
             /\ AddSubscriptionWrites(c) =>
                   /\ UNCHANGED <<portfolio, alerts, expenses>>
                   /\ GrownByOne(billReminders, billReminders')
       /\ (lastCall' # lastCall /\ ~lastCall'.success) =>
             UNCHANGED <<portfolio, alerts, expenses, billReminders>>]_vars

(***************************************************************************)
(* addStockTool calls in flight together.                                  *)
(***************************************************************************)
RaceNext ==
    \/ \E s \in Symbols, q \in PosQty, p \in PosPrice : AddStockStarts(s, q, p)
    \/ \E c \in 1 .. Len(calls) : AddStockReads(c)
    \/ \E c \in 1 .. Len(calls) : AddStockWrites(c, MaxPosLots)
    \/ \E c \in 1 .. Len(calls) : AddStockReturns(c)

SpecRace == Init /\ [][RaceNext]_vars

\* C24: once the addStock calls that ran together have all returned, every
\* purchase has taken effect: each symbol's quantity is the sum of the
\* quantities added to it and each lot is in its holding's purchases.
C24_BothPurchasesTakeEffect ==
    calls = << >> =>
        \A s \in Symbols :
            buys[s] # << >> =>
                /\ Held(portfolio, s)
                /\ portfolio[FindIndex(portfolio, s)].quantity = SumQty(buys[s])
                /\ \A k \in 1 .. Len(buys[s]) :
                      \E j \in 1 .. Len(portfolio[FindIndex(portfolio, s)].purchases) :
                          portfolio[FindIndex(portfolio, s)].purchases[j] = buys[s][k]

(***************************************************************************)
(* The dashboard (page.tsx).  The file holds two MainDashboard functions;  *)
(* mounted is the one on screen.  portfolio is state.portfolio of          *)
(* useCoAgent; livePortfolio is the list the dashboard shows.  A change of *)
(* state.portfolio is one step, the effects that follow the render with    *)
(* the changed state are another.  updatePortfolioPrices closes over the   *)
(* state.portfolio of the render that made it; a refresh in flight is the  *)
(* snapshot it maps over, from its Promise.all until                       *)
(* setLivePortfolio(updated).                                              *)
(***************************************************************************)
\* the first MainDashboard: the value the map callback of
\* updatePortfolioPrices returns for a holding, {...holding, currentPrice,
\* avgCost, totalValue, totalCost, gainLoss, gainLossPercent}
LiveEntry(holding, outcome) ==
    LET currentPrice == IF apiKey /\ outcome.kind = "ok" /\ outcome.c # 0 /\ outcome.c > 0
                        THEN outcome.c ELSE holding.purchasePrice
        avgCost == AvgCost(holding)
        totalValue == Times(currentPrice, holding.quantity)
        totalCost == F64Mul(avgCost, FromInt(holding.quantity))
        gainLoss == F64Sub(totalValue, totalCost)
    IN  [currentPrice |-> currentPrice,
         avgCost |-> avgCost,
         totalValue |-> totalValue,
         totalCost |-> totalCost,
         gainLoss |-> gainLoss,
         gainLossPercent |-> F64Mul(F64Div(gainLoss, totalCost), FromInt(100))]
        @@ holding

\* the second MainDashboard: the value the map callback of
\* updatePortfolioPrices returns for a holding.  With an answer the price
\* is data.c || holding.purchasePrice (a quote of 0 or without c gives the
\* purchase price) and the cost is at the purchase price; without an API
\* key, or when the fetch throws, the holding is shown flat
LiveEntrySecond(holding, outcome) ==
    IF apiKey /\ outcome.kind # "fail"
    THEN LET currentPrice == IF outcome.kind = "ok" /\ outcome.c # 0
                             THEN outcome.c ELSE holding.purchasePrice
             totalValue == Times(currentPrice, holding.quantity)
             totalCost == Times(holding.purchasePrice, holding.quantity)
             gainLoss == F64Sub(totalValue, totalCost)
         IN  [currentPrice |-> currentPrice,
              totalValue |-> totalValue,
              gainLoss |-> gainLoss,
              gainLossPercent |-> F64Mul(F64Div(gainLoss, totalCost), FromInt(100))]
             @@ holding
    ELSE [currentPrice |-> holding.purchasePrice,
          totalValue |-> Times(holding.purchasePrice, holding.quantity),
          gainLoss |-> FromInt(0),
          gainLossPercent |-> FromInt(0)]
         @@ holding

\* the first MainDashboard: updatePortfolioPrices up to its first await,
\* made in a render whose state.portfolio is pf: an empty portfolio clears
\* the live list at once, any other starts a refresh
UpdatePortfolioPrices(pf, live, inFlight) ==
    IF pf = << >>
    THEN /\ livePortfolio' = << >>
         /\ refreshes' = inFlight
    ELSE /\ Len(inFlight) < MaxRefreshes
         /\ livePortfolio' = live
         /\ refreshes' = Append(inFlight, pf)

\* the second MainDashboard: updatePortfolioPrices up to its first await;
\* it does nothing for an empty portfolio
UpdatePortfolioPricesSecond(pf, live, inFlight) ==
    IF pf # << >>
    THEN /\ Len(inFlight) < MaxRefreshes
         /\ livePortfolio' = live
         /\ refreshes' = Append(inFlight, pf)
    ELSE /\ livePortfolio' = live
         /\ refreshes' = inFlight

\* MainDashboard renders for the first time; its effects are yet to run
MainDashboard(copy) ==
    /\ mounted = 0
    /\ mounted' = copy
    /\ effectPending' = TRUE
    /\ UNCHANGED <<portfolio, buys, lastCall, livePortfolio, refreshes, rendered>>
    /\ UNCHANGED <<valVars, memVars>>

\* state.portfolio changes to updatedPortfolio: the component will render
\* again and the effects on state.portfolio will run
PortfolioChanges(updatedPortfolio) ==
    /\ mounted # 0
    /\ updatedPortfolio # portfolio
    /\ InBounds(updatedPortfolio, MaxDashLots)
    /\ portfolio' = updatedPortfolio
    /\ effectPending' = TRUE
    /\ UNCHANGED <<buys, lastCall, livePortfolio, refreshes, mounted, rendered>>
    /\ UNCHANGED <<valVars, memVars>>

\* reader.onload of handleCSVUpload: the dashboard imports the lines of a
\* CSV file into the shared state with setState; nothing is set when no
\* line is valid
ImportCSV(lines) ==
    /\ mounted # 0
    /\ LET newStocks == IF mounted = 1 THEN ParseCSV(lines) ELSE ParseCSVSecond(lines)
       IN  IF Len(newStocks) > 0
           THEN /\ InBounds(portfolio \o newStocks, MaxDashLots)
                /\ portfolio' = portfolio \o newStocks
                /\ effectPending' = TRUE
           ELSE UNCHANGED <<portfolio, effectPending>>
    /\ UNCHANGED <<buys, lastCall, livePortfolio, refreshes, mounted, rendered>>
    /\ UNCHANGED <<valVars, memVars>>

\* the effects on [state.portfolio, updatePortfolioPrices] run after the
\* render with the changed state.portfolio: the first calls that render's
\* updatePortfolioPrices, the second clears the interval and, for a
\* portfolio that is not empty, sets one on that render's
\* updatePortfolioPrices
EffectsRun ==
    /\ effectPending
    /\ effectPending' = FALSE
    /\ rendered' = portfolio
    /\ IF mounted = 1
       THEN UpdatePortfolioPrices(portfolio, livePortfolio, refreshes)
       ELSE UpdatePortfolioPricesSecond(portfolio, livePortfolio, refreshes)
    /\ UNCHANGED <<portfolio, buys, lastCall, mounted>>
    /\ UNCHANGED <<valVars, memVars>>

\* the setInterval callback, set by the effects of a render whose
\* state.portfolio is not empty and cleared by the next run of the effects
TimerTick ==
    /\ mounted # 0
    /\ rendered # << >>
    /\ IF mounted = 1
       THEN UpdatePortfolioPrices(rendered, livePortfolio, refreshes)
       ELSE UpdatePortfolioPricesSecond(rendered, livePortfolio, refreshes)
    /\ UNCHANGED <<portfolio, buys, lastCall, mounted, rendered, effectPending>>
    /\ UNCHANGED <<valVars, memVars>>

\* the quotes of a refresh: a price, a quote of 0, a quote without c, or a
\* fetch that threw
RefreshOutcomes ==
    { Outcome("ok", 2), Outcome("ok", 0), Outcome("missing", 0), Outcome("fail", 0) }

\* the symbols the agent buys and sells in the runs of the dashboard
DashSymbols == {"A"}

\* Promise.all of refresh r settles with the given quotes, and the rest of
\* updatePortfolioPrices runs: setLivePortfolio(updated)
RefreshCompletes(r, outcomes) ==
    /\ livePortfolio' = [i \in 1 .. Len(refreshes[r]) |->
                            IF mounted = 1
                            THEN LiveEntry(refreshes[r][i], outcomes[i])
                            ELSE LiveEntrySecond(refreshes[r][i], outcomes[i])]
    /\ refreshes' = SubSeq(refreshes, 1, r - 1) \o SubSeq(refreshes, r + 1, Len(refreshes))
    /\ UNCHANGED <<portfolio, buys, lastCall, mounted, rendered, effectPending>>
    /\ UNCHANGED <<valVars, memVars>>

DashboardNext ==
    \/ \E copy \in 1 .. 2 : MainDashboard(copy)
    \/ \E s \in DashSymbols : PortfolioChanges(AddStockFn(portfolio, s, 1, 1))
    \/ \E s \in DashSymbols :
          Held(portfolio, s) /\ PortfolioChanges(RemoveStockFn(portfolio, s, TRUE, 1))
    \/ \E lines \in DashCsvFiles : ImportCSV(lines)
    \/ EffectsRun
    \/ TimerTick
    \/ \E r \in 1 .. Len(refreshes) :
          \E outcomes \in [1 .. Len(refreshes[r]) -> RefreshOutcomes] :
              RefreshCompletes(r, outcomes)

SpecDashboard == Init /\ [][DashboardNext]_vars

\* C7: no two holdings of the portfolio have the same symbol.
C7_SymbolsUnique ==
    \A i, j \in 1 .. Len(portfolio) :
        i # j => portfolio[i].symbol # portfolio[j].symbol

\* C30: once the effects of the last change of the portfolio have run and
\* no refresh is in flight, the live holdings are those of the current
\* portfolio: the same symbols with the same quantities, in the same
\* order; a refresh begun from an older portfolio has not replaced what a
\* newer one stored.
C30_LiveHoldingsConverge ==
    (refreshes = << >> /\ ~effectPending) =>
        /\ Len(livePortfolio) = Len(portfolio)
        /\ \A i \in 1 .. Len(portfolio) :
              /\ livePortfolio[i].symbol = portfolio[i].symbol
              /\ livePortfolio[i].quantity = portfolio[i].quantity

=============================================================================
